---- MODULE Spec2Model ----
(***************************************************************************)
(* Routing optimisation engine of the Roterizador repository.             *)
(*                                                                         *)
(* Two revisions of the optimiser live in the source tree:                 *)
(*   - backend/app/Roterizador/optimization.py  (dict-based solutions,     *)
(*     explicit unassigned list, stats and per-route feasible flag);       *)
(*   - backend/app/routers/optimization.py      (Route-object solutions,   *)
(*     the revision wired to the HTTP API).                                *)
(* Definitions of the second revision whose names collide with the first   *)
(* carry the prefix routers_.                                              *)
(***************************************************************************)
EXTENDS Integers, Sequences, FiniteSets, TLC

\* ------------------------------------------------------------------ bounds
NumStops == 3
NumVehicles == 2
MaxIter == 4

\* ------------------------------------------------------- program constants
DefaultSpeedKph == 40
UnservedPenalty == 1000
VndIterationsInGrasp == 50

\* One grid step of the modelled road: 2 km, i.e. 3 minutes at 40 km/h.
GridMeters == 2 * 1000

\* ------------------------------------------------------------ small helpers
Abs(x) == IF x < 0 THEN 0 - x ELSE x

Range(s) == {s[i] : i \in DOMAIN s}

RECURSIVE SumSeq(_)
SumSeq(s) == IF s = <<>> THEN 0 ELSE Head(s) + SumSeq(Tail(s))

\* list.pop(i) / list.insert(i, x) with 1-based positions
RemoveAt(s, i) == SubSeq(s, 1, i - 1) \o SubSeq(s, i + 1, Len(s))
InsertAt(s, i, x) == SubSeq(s, 1, i - 1) \o <<x>> \o SubSeq(s, i, Len(s))
Reverse(s) == [i \in 1..Len(s) |-> s[Len(s) + 1 - i]]

\* lexicographic order on equally long tuples of integers
RECURSIVE LexLess(_, _)
LexLess(a, b) ==
    IF a = <<>> THEN FALSE
    ELSE IF Head(a) # Head(b) THEN Head(a) < Head(b)
    ELSE LexLess(Tail(a), Tail(b))

\* the tuples of S in the order nested for-loops visit them
RECURSIVE LoopOrder(_)
LoopOrder(S) ==
    IF S = {} THEN <<>>
    ELSE LET m == CHOOSE x \in S : \A y \in S \ {x} : LexLess(x, y)
         IN <<m>> \o LoopOrder(S \ {m})

\* ------------------------------------------------------------ time strings
\* A time string is a sequence of one-character strings, "08:00" being
\* <<"0","8",":","0","0">>.
IsDigit(c) == c \in {"0", "1", "2", "3", "4", "5", "6", "7", "8", "9"}

DigitValue(c) ==
    CASE c = "0" -> 0 [] c = "1" -> 1 [] c = "2" -> 2 [] c = "3" -> 3
      [] c = "4" -> 4 [] c = "5" -> 5 [] c = "6" -> 6 [] c = "7" -> 7
      [] c = "8" -> 8 [] c = "9" -> 9

\* str.split(':')
RECURSIVE SplitColon(_, _)
SplitColon(s, cur) ==
    IF s = <<>> THEN <<cur>>
    ELSE IF Head(s) = ":" THEN <<cur>> \o SplitColon(Tail(s), <<>>)
    ELSE SplitColon(Tail(s), Append(cur, Head(s)))

\* int(field) succeeds (over the alphabet of digits, colon and letters)
IntParses(field) == Len(field) > 0 /\ \A i \in 1..Len(field) : IsDigit(field[i])

RECURSIVE IntOf(_)
IntOf(field) ==
    IF field = <<>> THEN 0
    ELSE 10 * IntOf(SubSeq(field, 1, Len(field) - 1)) + DigitValue(field[Len(field)])

\* RobustRouter._time_to_minutes: ValueError and AttributeError give 0
MinutesOfParts(parts) ==
    IF Len(parts) = 2 /\ IntParses(parts[1]) /\ IntParses(parts[2])
    THEN IntOf(parts[1]) * 60 + IntOf(parts[2])
    ELSE 0

\* RobustRouter._time_to_minutes: ValueError and AttributeError give 0
_time_to_minutes(time_str) == MinutesOfParts(SplitColon(time_str, <<>>))

\* dt_time.fromisoformat accepts the string (the HH:MM forms of the alphabet)
IsIsoTime(time_str) ==
    /\ Len(time_str) = 5
    /\ time_str[3] = ":"
    /\ \A i \in {1, 2, 4, 5} : IsDigit(time_str[i])
    /\ IntOf(SubSeq(time_str, 1, 2)) <= 23
    /\ IntOf(SubSeq(time_str, 4, 5)) <= 59

T0800 == <<"0", "8", ":", "0", "0">>
T0804 == <<"0", "8", ":", "0", "4">>
T1800 == <<"1", "8", ":", "0", "0">>
TBad == <<"8", "h">>


\* ------------------------------------------------------------------- state
VARIABLES
    pc,               \* control location of the solve in progress
    request_data,     \* the payload handed to solve_vrp / solve_from_json
    method,           \* 'vnd' | 'tabu' | 'grasp'
    max_iterations,   \* the iteration cap of the call
    map_available,    \* environment: the map provider can deliver the area
    graph,            \* self.graph: "None" or "loaded"
    vehicles,         \* self.vehicles
    points,           \* self.points (the depot excluded in the first revision)
    depot,            \* self.depot
    distance_matrix,  \* self.distance_matrix, depot at index 0
    time_matrix,      \* self.time_matrix, minutes
    solution,         \* the solution under construction / current solution
    best_solution,    \* the global best of the running search
    search,           \* the local variables of the running search
    outcome,          \* "running" | "returned" | the exception raised
    result,           \* the value the call returned
    effects           \* what the call has done so far (network loads, search steps)

vars == <<pc, request_data, method, max_iterations, map_available, graph, vehicles,
          points, depot, distance_matrix, time_matrix, solution, best_solution,
          search, outcome, result, effects>>

\* --------------------------------------------------------- request payloads
\* JSON scalars offered for a coordinate: a number, or a string float() rejects
Num(n) == [t |-> "num", n |-> n]
NotANumber == [t |-> "str", n |-> 0]
FloatParses(x) == x.t = "num"
FloatOf(x) == x.n

StopKinds == {"plain", "heavy", "bulky", "cold", "tight"}
VehicleKinds == {"small", "mid", "cold"}
Layouts == {"zero", "asc", "desc"}

\* the payload of one stop of a kind, at longitude lng (grid steps), latitude 0
StopData(kind, id, lng) ==
    [id |-> id, type |-> "delivery", lat |-> Num(0), lng |-> Num(lng),
     weight |-> IF kind = "heavy" THEN 2 ELSE 1,
     volume |-> IF kind = "bulky" THEN 2 ELSE 1,
     time_window_start |-> T0800,
     time_window_end |-> IF kind = "tight" THEN T0804 ELSE T1800,
     service_time |-> 30,
     required_skills |-> IF kind = "cold" THEN {"cold"} ELSE {}]

DepotData ==
    [id |-> 0, type |-> "depot", lat |-> Num(0), lng |-> Num(0),
     weight |-> 0, volume |-> 0, time_window_start |-> T0800,
     time_window_end |-> T1800, service_time |-> 0, required_skills |-> {}]

VehicleData(kind, id) ==
    [id |-> id,
     capacity |-> IF kind = "small" THEN 1 ELSE 2,
     max_weight |-> IF kind = "small" THEN 1 ELSE 2,
     volume_capacity |-> IF kind = "small" THEN 1 ELSE 2,
     start_time |-> T0800, end_time |-> T1800,
     speed |-> DefaultSpeedKph, cost_per_km |-> 10, fixed_cost |-> 100,
     skills |-> IF kind = "cold" THEN {"cold"} ELSE {}]

LayoutLng(layout, n, s) ==
    CASE layout = "zero" -> 0
      [] layout = "asc" -> s
      [] layout = "desc" -> n + 1 - s
      [] layout = "pair" -> IF s <= 2 THEN 1 ELSE s - 1
      [] layout = "far" -> IF s = 1 THEN 1 ELSE 3

\* n stops whose kinds alternate a, b, a, ... ; m vehicles alternating va, vb
StopsPayload(n, a, b, layout) ==
    [s \in 1..n |-> StopData(IF s % 2 = 1 THEN a ELSE b, s, LayoutLng(layout, n, s))]

VehiclesPayload(m, va, vb) ==
    [v \in 1..m |-> VehicleData(IF v % 2 = 1 THEN va ELSE vb, v)]

WellFormedRequests ==
    {[vehicles |-> VehiclesPayload(m, va, vb),
      points |-> <<DepotData>> \o StopsPayload(n, a, b, layout)] :
        m \in 1..NumVehicles, va \in VehicleKinds, vb \in VehicleKinds,
        n \in 1..NumStops, a \in StopKinds, b \in StopKinds, layout \in Layouts}

\* ---------------------------------- first revision: building self.* from input
\* RobustRouter._create_vehicles; the numeric fields of the payloads are numbers
_create_vehicles(vehicles_data) ==
    [ok |-> TRUE,
     vehicles |-> [i \in 1..Len(vehicles_data) |->
        [id |-> vehicles_data[i].id,
         capacity |-> vehicles_data[i].capacity,
         max_weight |-> vehicles_data[i].max_weight,
         volume_capacity |-> vehicles_data[i].volume_capacity,
         start_time |-> vehicles_data[i].start_time,
         end_time |-> vehicles_data[i].end_time,
         speed |-> vehicles_data[i].speed,
         cost_per_km |-> vehicles_data[i].cost_per_km,
         fixed_cost |-> vehicles_data[i].fixed_cost,
         skills |-> vehicles_data[i].skills]]]

MakePoint(p_data) ==
    [id |-> p_data.id, type |-> p_data.type,
     lat |-> FloatOf(p_data.lat), lng |-> FloatOf(p_data.lng),
     weight |-> p_data.weight, volume |-> p_data.volume,
     time_window_start |-> p_data.time_window_start,
     time_window_end |-> p_data.time_window_end,
     service_time |-> p_data.service_time,
     required_skills |-> p_data.required_skills]

NoDepot == [id |-> 0 - 1, type |-> "none", lat |-> 0, lng |-> 0, weight |-> 0,
            volume |-> 0, time_window_start |-> <<>>, time_window_end |-> <<>>,
            service_time |-> 0, required_skills |-> {}]

\* RobustRouter._create_points: float() of a malformed coordinate raises inside
\* the try block and the method returns False; time strings are stored as given.
_create_points(points_data) ==
    IF \E i \in 1..Len(points_data) :
          ~FloatParses(points_data[i].lat) \/ ~FloatParses(points_data[i].lng)
    THEN [ok |-> FALSE, points |-> <<>>, depot |-> NoDepot]
    ELSE LET all == [i \in 1..Len(points_data) |-> MakePoint(points_data[i])]
             IsDepot(p) == p.type = "depot"
             NotDepot(p) == p.type # "depot"
             depots == SelectSeq(all, IsDepot)
             others == SelectSeq(all, NotDepot)
         IN IF depots # <<>>
            THEN [ok |-> TRUE, points |-> others, depot |-> depots[Len(depots)]]
            ELSE IF others # <<>>
            THEN [ok |-> TRUE, points |-> Tail(others), depot |-> Head(others)]
            ELSE [ok |-> TRUE, points |-> <<>>, depot |-> NoDepot]

\* The road network of the modelled area: one straight road along latitude 0
\* with a node at every grid step; nx.shortest_path length between the nodes
\* nearest to two points.
RoadLength(p, q) == Abs(p.lng - q.lng) * GridMeters

\* RobustRouter._create_distance_time_matrices: all_points = [depot] + points,
\* time in minutes at the default 40 km/h.
AllPoints(ps, dep) == [i \in 0..Len(ps) |-> IF i = 0 THEN dep ELSE ps[i]]

_create_distance_matrix(ps, dep) ==
    [i \in 0..Len(ps) |-> [j \in 0..Len(ps) |->
        IF i = j THEN 0 ELSE RoadLength(AllPoints(ps, dep)[i], AllPoints(ps, dep)[j])]]

_create_time_matrix(ps, dep) ==
    [i \in 0..Len(ps) |-> [j \in 0..Len(ps) |->
        IF i = j THEN 0
        ELSE (RoadLength(AllPoints(ps, dep)[i], AllPoints(ps, dep)[j]) * 3600)
                 \div (DefaultSpeedKph * 1000 * 60)]]

\* -------------------------------------------- first revision: class Route
\* Route.__init__; vehicle is the position of the vehicle in self.vehicles and
\* a point is named by its position in self.points (its matrix index).
NewRoute(v) ==
    [vehicle |-> v, points |-> <<>>, distance |-> 0, duration |-> 0, cost |-> 0,
     load |-> 0, volume |-> 0, time_windows_violation |-> 0,
     capacity_violation |-> 0, skill_requirements |-> {}]

\* Route.add_point
add_point(route, p, distance, duration) ==
    [route EXCEPT
        !.points = Append(@, p),
        !.distance = @ + distance,
        !.duration = @ + duration,
        !.load = @ + points[p].weight,
        !.volume = @ + points[p].volume,
        !.skill_requirements = @ \cup points[p].required_skills,
        !.cost = @ + (distance \div 1000) * vehicles[route.vehicle].cost_per_km
                   + (IF Len(route.points) + 1 = 1
                      THEN vehicles[route.vehicle].fixed_cost ELSE 0)]

\* Route.is_feasible
is_feasible(route) ==
    /\ route.load <= vehicles[route.vehicle].capacity
    /\ route.volume <= vehicles[route.vehicle].volume_capacity
    /\ route.time_windows_violation = 0
    /\ route.capacity_violation = 0

\* distance / vehicle.speed_mps, in seconds
TravelSeconds(distance, v) == (distance * 3600) \div (vehicles[v].speed * 1000)

\* sorted(self.vehicles, key=capacity, reverse=True): stable, largest first
SortedVehicles ==
    LET Before(a, b) ==
            \/ vehicles[a].capacity > vehicles[b].capacity
            \/ (vehicles[a].capacity = vehicles[b].capacity /\ a < b)
        RECURSIVE Order(_)
        Order(S) == IF S = {} THEN <<>>
                    ELSE LET f == CHOOSE a \in S : \A b \in S \ {a} : Before(a, b)
                         IN <<f>> \o Order(S \ {f})
    IN Order(DOMAIN vehicles)

\* ----------------------------- first revision: the candidate test of a stop
\* arrival at stop p when leaving current_point at current_time, waiting for
\* the window to open
WaitUntil(arrival_time, time_window_start) ==
    IF arrival_time < time_window_start THEN time_window_start ELSE arrival_time

ArrivalTime(current_point, current_time, p) ==
    WaitUntil(current_time + time_matrix[current_point][p],
              _time_to_minutes(points[p].time_window_start))

HasSkills(v, p) == points[p].required_skills \subseteq vehicles[v].skills

FitsCapacity(v, route, p) ==
    ~(\/ route.load + points[p].weight > vehicles[v].capacity
      \/ route.volume + points[p].volume > vehicles[v].volume_capacity)

WithinWindow(current_point, current_time, p) ==
    ~(ArrivalTime(current_point, current_time, p)
         > _time_to_minutes(points[p].time_window_end))

IsCandidate(v, st, p) ==
    /\ HasSkills(v, p)
    /\ FitsCapacity(v, st.route, p)
    /\ WithinWindow(st.current_point, st.current_time, p)

StartRoute(v, pool) ==
    [route |-> NewRoute(v), current_point |-> 0,
     current_time |-> _time_to_minutes(vehicles[v].start_time), pool |-> pool]

\* the state after appending the stop at position i of the pool
Advance(v, st, i) ==
    LET p == st.pool[i]
        d == distance_matrix[st.current_point][p]
    IN [route |-> add_point(st.route, p, d, TravelSeconds(d, v)),
        current_point |-> p,
        current_time |-> ArrivalTime(st.current_point, st.current_time, p)
                            + points[p].service_time,
        pool |-> RemoveAt(st.pool, i)]

\* the dict appended to routes when a route with stops is closed
RouteDict(v, st) ==
    LET back == distance_matrix[st.current_point][0]
    IN [vehicle_id |-> vehicles[v].id,
        points |-> [i \in 1..Len(st.route.points) |-> points[st.route.points[i]].id],
        distance |-> st.route.distance + back,
        duration |-> st.route.duration + TravelSeconds(back, v),
        cost |-> st.route.cost + (back \div 1000) * vehicles[v].cost_per_km,
        load |-> st.route.load,
        volume |-> st.route.volume,
        feasible |-> is_feasible(st.route)]

\* ---------------------------------------------- unassigned stops and stats
SkillReason(p) ==
    [text |-> "Nenhum veiculo com as habilidades necessarias",
     skills |-> points[p].required_skills]
CapacityReason == [text |-> "Nenhum veiculo com capacidade suficiente", skills |-> {}]
TimeReason == [text |-> "Nenhum veiculo disponivel na janela de tempo", skills |-> {}]
UnknownReason == [text |-> "Razao desconhecida", skills |-> {}]
NoDataReason == [text |-> "Dados insuficientes", skills |-> {}]

UnassignedReasons(p) ==
    LET no_skill == ~\E v \in DOMAIN vehicles : HasSkills(v, p)
        has_capacity == \E v \in DOMAIN vehicles :
            /\ vehicles[v].capacity >= points[p].weight
            /\ vehicles[v].volume_capacity >= points[p].volume
            /\ HasSkills(v, p)
        has_time == \E v \in DOMAIN vehicles :
            /\ HasSkills(v, p)
            /\ _time_to_minutes(points[p].time_window_start)
                  <= _time_to_minutes(vehicles[v].end_time)
            /\ _time_to_minutes(points[p].time_window_end)
                  >= _time_to_minutes(vehicles[v].start_time)
        reasons == (IF no_skill THEN <<SkillReason(p)>> ELSE <<>>)
                   \o (IF ~has_capacity THEN <<CapacityReason>> ELSE <<>>)
                   \o (IF ~has_time THEN <<TimeReason>> ELSE <<>>)
    IN IF reasons # <<>> THEN reasons ELSE <<UnknownReason>>

UnassignedList(pool) ==
    [i \in 1..Len(pool) |->
        [point_id |-> points[pool[i]].id, reasons |-> UnassignedReasons(pool[i])]]

AllFeasible(routes) == \A i \in 1..Len(routes) : routes[i].feasible

\* the solution dict assembled at the end of a construction
MakeSolution(routes, unassigned) ==
    [routes |-> routes,
     unassigned |-> unassigned,
     stats |-> [total_distance |-> SumSeq([i \in 1..Len(routes) |-> routes[i].distance]),
                total_cost |-> SumSeq([i \in 1..Len(routes) |-> routes[i].cost]),
                total_points_served |->
                    SumSeq([i \in 1..Len(routes) |-> Len(routes[i].points)]),
                total_points |-> Len(points),
                feasible |-> AllFeasible(routes) /\ unassigned = <<>>]]

\* np.ndarray.any() of the distance matrix
MatrixAny(m) == \E i \in DOMAIN m : \E j \in DOMAIN m[i] : m[i][j] # 0

InsufficientData ==
    [routes |-> <<>>,
     unassigned |-> [i \in 1..Len(points) |->
                        [point_id |-> points[i].id, reasons |-> <<NoDataReason>>]],
     stats |-> [total_distance |-> 0, total_cost |-> 0, total_points_served |-> 0,
                total_points |-> Len(points), feasible |-> FALSE]]

\* ------------------------------------- first revision: constructive builder
\* the positions of points_to_assign whose stop passes the three tests
Candidates(v, st) == {i \in 1..Len(st.pool) : IsCandidate(v, st, st.pool[i])}

\* position of the last nearest candidate, 0 if none
NearestOf_last(st, cands) ==
    LET dist(i) == distance_matrix[st.current_point][st.pool[i]]
    IN IF cands = {} THEN 0
       ELSE CHOOSE i \in cands :
                \A j \in cands : dist(i) < dist(j) \/ (dist(i) = dist(j) /\ i >= j)

\* position of the first nearest candidate, 0 if none
NearestOf(st, cands) ==
    LET dist(i) == distance_matrix[st.current_point][st.pool[i]]
    IN IF cands = {} THEN 0
       ELSE CHOOSE i \in cands :
                \A j \in cands : dist(i) < dist(j) \/ (dist(i) = dist(j) /\ i <= j)

\* the scan of points_to_assign of one round of the while loop
BestIndex(v, st) == NearestOf(st, Candidates(v, st))

\* one round of the while loop: stop when nothing fits, else append and go on
RECURSIVE FillRoute(_, _)
FillFrom(v, st, best_idx) ==
    IF st.pool = <<>> \/ best_idx = 0 THEN st
    ELSE FillRoute(v, Advance(v, st, best_idx))

\* the while loop of one vehicle
FillRoute(v, st) == FillFrom(v, st, BestIndex(v, st))

\* "if route.points:" after the while loop
CloseRoute(v, st, routes) ==
    IF st.route.points # <<>> THEN Append(routes, RouteDict(v, st)) ELSE routes

\* the next vehicle, with the stops the finished route left over
RECURSIVE BuildRoutes(_, _, _)
BuildNext(order, st, routes) ==
    BuildRoutes(Tail(order), st.pool, CloseRoute(Head(order), st, routes))

\* the for loop over the sorted vehicles
BuildRoutes(order, pool, routes) ==
    IF order = <<>> \/ pool = <<>> THEN [routes |-> routes, pool |-> pool]
    ELSE BuildNext(order, FillRoute(Head(order), StartRoute(Head(order), pool)), routes)

\* the solution dict of the builder: routes, unassigned with reasons, stats
Assemble(built) == MakeSolution(built.routes, UnassignedList(built.pool))

\* RobustRouter._create_initial_solution
_create_initial_solution ==
    IF vehicles = <<>> \/ points = <<>> \/ ~MatrixAny(distance_matrix)
    THEN InsufficientData
    ELSE Assemble(BuildRoutes(SortedVehicles, [i \in 1..Len(points) |-> i], <<>>))

\* --------------------------- first revision: recomputing a route's statistics
\* next(v for v in self.vehicles if v.id == ...), next(p for p in self.points ...)
VehicleById(id) ==
    CHOOSE v \in DOMAIN vehicles :
        vehicles[v].id = id /\ \A w \in DOMAIN vehicles : vehicles[w].id = id => v <= w

PointById(id) ==
    CHOOSE p \in DOMAIN points :
        points[p].id = id /\ \A q \in DOMAIN points : points[q].id = id => p <= q

\* one stop of the loop of _update_route_stats; late records that line 1037
\* set route['feasible'] = False during the walk
RECURSIVE WalkRoute(_, _)
WalkStep(ids, w, p, arrival_time) ==
    WalkRoute(Tail(ids),
        [temp_route |-> add_point(w.temp_route, p,
                                  distance_matrix[w.current_point][p],
                                  time_matrix[w.current_point][p] * 60),
         current_point |-> p,
         current_time |-> arrival_time + points[p].service_time,
         late |-> w.late \/ arrival_time > _time_to_minutes(points[p].time_window_end)])

\* the arrival at stop p, waiting for its window to open
WalkTo(ids, w, p) == WalkStep(ids, w, p, ArrivalTime(w.current_point, w.current_time, p))

\* the loop of _update_route_stats over route['points']
WalkRoute(ids, w) == IF ids = <<>> THEN w ELSE WalkTo(ids, w, PointById(Head(ids)))

\* the fields written at the end of _update_route_stats: the flag written
\* during the walk is overwritten by temp_route.is_feasible()
WriteStats(route, v, w, back) ==
    [route EXCEPT
        !.distance = w.temp_route.distance + back,
        !.duration = w.temp_route.duration + TravelSeconds(back, v),
        !.cost = w.temp_route.cost + (back \div 1000) * vehicles[v].cost_per_km,
        !.load = w.temp_route.load,
        !.volume = w.temp_route.volume,
        !.feasible = is_feasible(w.temp_route)]

\* the leg back to the depot, added when the route has stops
ReturnLeg(route, v, w) ==
    WriteStats(route, v, w,
               IF w.current_point # 0 THEN distance_matrix[w.current_point][0] ELSE 0)

\* the walk from the depot at the vehicle's start time
WalkFor(route, v) ==
    ReturnLeg(route, v,
              WalkRoute(route.points,
                  [temp_route |-> NewRoute(v), current_point |-> 0,
                   current_time |-> _time_to_minutes(vehicles[v].start_time),
                   late |-> FALSE]))

\* the recomputation that adds to the distance and cost the route already has
_update_route_stats_accumulating(route) ==
    [WalkFor(route, VehicleById(route.vehicle_id)) EXCEPT
        !.distance = @ + route.distance, !.cost = @ + route.cost]

\* RobustRouter._update_route_stats
_update_route_stats(route) == WalkFor(route, VehicleById(route.vehicle_id))

\* route stats recomputed in place for the route at position r
UpdateRoute(sol, r) == [sol EXCEPT !.routes[r] = _update_route_stats(@)]

\* ------------------------------- first revision: the neighbourhood generators
\* each neighbour is a deep copy of the solution in which only the touched
\* routes are rewritten; 'unassigned' and 'stats' are copied as they are
SwapItems(s, i, j) == [s EXCEPT ![i] = s[j], ![j] = s[i]]

ApplySwapIntra(sol, m) ==
    UpdateRoute([sol EXCEPT !.routes[m[1]].points = SwapItems(@, m[2], m[3])], m[1])

\* RobustRouter._swap_intra_route: every neighbour is kept
_swap_intra_route(sol) ==
    LET moves == LoopOrder({m \in (1..Len(sol.routes)) \X (1..Len(points))
                                   \X (1..Len(points)) :
                                /\ m[2] < m[3]
                                /\ m[3] <= Len(sol.routes[m[1]].points)})
    IN [n \in 1..Len(moves) |-> ApplySwapIntra(sol, moves[n])]

ApplySwapInter(sol, m) ==
    UpdateRoute(
        UpdateRoute([sol EXCEPT !.routes[m[1]].points[m[3]] = sol.routes[m[2]].points[m[4]],
                                !.routes[m[2]].points[m[4]] = sol.routes[m[1]].points[m[3]]],
                    m[1]),
        m[2])

\* the feasibility test of each generator on a candidate x = [m, nb]: the move
\* and the neighbour it produces
SwapInterKept(x) ==
    x.nb.routes[x.m[1]].feasible /\ x.nb.routes[x.m[2]].feasible

RelocateKept(x) ==
    /\ x.nb.routes[x.m[1]].feasible
    /\ (x.m[1] = x.m[3] \/ x.nb.routes[x.m[3]].feasible)

TwoOptKept(x) == x.nb.routes[x.m[1]].feasible

\* RobustRouter._swap_inter_route: kept when both touched routes are feasible
_swap_inter_route(sol) ==
    LET moves == LoopOrder({m \in (1..Len(sol.routes)) \X (1..Len(sol.routes))
                                   \X (1..Len(points)) \X (1..Len(points)) :
                                /\ m[1] < m[2]
                                /\ m[3] <= Len(sol.routes[m[1]].points)
                                /\ m[4] <= Len(sol.routes[m[2]].points)})
        kept == SelectSeq([n \in 1..Len(moves) |->
                              [m |-> moves[n], nb |-> ApplySwapInter(sol, moves[n])]],
                          SwapInterKept)
    IN [n \in DOMAIN kept |-> kept[n].nb]

\* one relocation; m = <<src, point_idx, dst, insert_pos>>, positions 1-based
Popped(sol, m) == [sol EXCEPT !.routes[m[1]].points = RemoveAt(@, m[2])]

Inserted(sol, m, point) ==
    [sol EXCEPT !.routes[m[3]].points =
        InsertAt(@, IF m[1] = m[3] /\ m[2] < m[4] THEN m[4] - 1 ELSE m[4], point)]

ApplyRelocate(sol, m) ==
    IF m[1] # m[3]
    THEN UpdateRoute(UpdateRoute(Inserted(Popped(sol, m), m, sol.routes[m[1]].points[m[2]]),
                                 m[1]), m[3])
    ELSE UpdateRoute(Inserted(Popped(sol, m), m, sol.routes[m[1]].points[m[2]]), m[1])

\* RobustRouter._relocate: kept when the source route and, if different, the
\* destination route are feasible
_relocate(sol) ==
    LET moves == LoopOrder({m \in (1..Len(sol.routes)) \X (1..Len(points))
                                   \X (1..Len(sol.routes)) \X (1..(Len(points) + 1)) :
                                /\ m[2] <= Len(sol.routes[m[1]].points)
                                /\ m[4] <= Len(sol.routes[m[3]].points) + 1
                                /\ ~(m[1] = m[3] /\ (m[2] = m[4] \/ m[2] + 1 = m[4]))})
        kept == SelectSeq([n \in 1..Len(moves) |->
                              [m |-> moves[n], nb |-> ApplyRelocate(sol, moves[n])]],
                          RelocateKept)
    IN [n \in DOMAIN kept |-> kept[n].nb]

ReversedSpan(pts, i, j) ==
    SubSeq(pts, 1, i - 1) \o Reverse(SubSeq(pts, i, j)) \o SubSeq(pts, j + 1, Len(pts))

ApplyTwoOpt(sol, m) ==
    UpdateRoute([sol EXCEPT !.routes[m[1]].points = ReversedSpan(@, m[2], m[3])], m[1])

\* RobustRouter._two_opt: kept when the touched route is feasible
_two_opt(sol) ==
    LET moves == LoopOrder({m \in (1..Len(sol.routes)) \X (1..Len(points))
                                   \X (1..Len(points)) :
                                /\ m[2] < m[3]
                                /\ m[3] <= Len(sol.routes[m[1]].points)})
        kept == SelectSeq([n \in 1..Len(moves) |->
                              [m |-> moves[n], nb |-> ApplyTwoOpt(sol, moves[n])]],
                          TwoOptKept)
    IN [n \in DOMAIN kept |-> kept[n].nb]

\* neighborhood_structures[k] of _vnd_search, k = 0..3
Neighborhood(k, sol) ==
    CASE k = 0 -> _swap_intra_route(sol)
      [] k = 1 -> _swap_inter_route(sol)
      [] k = 2 -> _relocate(sol)
      [] k = 3 -> _two_opt(sol)

\* RobustRouter._generate_all_neighbors
_generate_all_neighbors(sol) ==
    _swap_intra_route(sol) \o _swap_inter_route(sol) \o _relocate(sol) \o _two_opt(sol)

\* the comparison with ties on cost counted as better
_is_better_solution_ties(new_solution, current_solution) ==
    LET new_feasible == AllFeasible(new_solution.routes)
        current_feasible == AllFeasible(current_solution.routes)
    IN IF new_feasible /\ ~current_feasible THEN TRUE
       ELSE IF ~new_feasible /\ current_feasible THEN FALSE
       ELSE IF new_solution.stats.total_points_served
                 > current_solution.stats.total_points_served THEN TRUE
       ELSE IF new_solution.stats.total_points_served
                 = current_solution.stats.total_points_served
            THEN new_solution.stats.total_cost <= current_solution.stats.total_cost
       ELSE FALSE

\* the comparison with the second level reversed: fewer stops served wins
_is_better_solution_fewer_stops(new_solution, current_solution) ==
    LET new_feasible == AllFeasible(new_solution.routes)
        current_feasible == AllFeasible(current_solution.routes)
    IN IF new_feasible /\ ~current_feasible THEN TRUE
       ELSE IF ~new_feasible /\ current_feasible THEN FALSE
       ELSE IF new_solution.stats.total_points_served
                 < current_solution.stats.total_points_served THEN TRUE
       ELSE IF new_solution.stats.total_points_served
                 = current_solution.stats.total_points_served
            THEN new_solution.stats.total_cost < current_solution.stats.total_cost
       ELSE FALSE

\* RobustRouter._is_better_solution
_is_better_solution(new_solution, current_solution) ==
    LET new_feasible == AllFeasible(new_solution.routes)
        current_feasible == AllFeasible(current_solution.routes)
    IN IF new_feasible /\ ~current_feasible THEN TRUE
       ELSE IF ~new_feasible /\ current_feasible THEN FALSE
       ELSE IF new_solution.stats.total_points_served
                 > current_solution.stats.total_points_served THEN TRUE
       ELSE IF new_solution.stats.total_points_served
                 = current_solution.stats.total_points_served
            THEN new_solution.stats.total_cost < current_solution.stats.total_cost
       ELSE FALSE

\* RobustRouter._evaluate_solution; inf marks float('inf')
_evaluate_solution(sol) ==
    IF ~(AllFeasible(sol.routes) /\ sol.unassigned = <<>>)
    THEN [inf |-> TRUE, v |-> 0]
    ELSE [inf |-> FALSE,
          v |-> sol.stats.total_cost
                + (IF sol.stats.total_points_served < sol.stats.total_points
                   THEN (sol.stats.total_points - sol.stats.total_points_served)
                            * UnservedPenalty
                   ELSE 0)]

\* a < b on floats that may be inf
ValueLess(a, b) == ~a.inf /\ (b.inf \/ a.v < b.v)

\* --------------------------------------- first revision: GRASP construction
\* alpha as a number of tenths (the default 0.3 is 3)
DefaultAlphaTenths == 3

\* the restricted candidate list: positions in the pool of the candidates
\* within min + alpha * (max - min); every candidate when there is only one
RclOf(st, alpha_tenths, cands) ==
    LET dist(i) == distance_matrix[st.current_point][st.pool[i]]
        min_dist == CHOOSE d \in {dist(i) : i \in cands} : \A i \in cands : d <= dist(i)
        max_dist == CHOOSE d \in {dist(i) : i \in cands} : \A i \in cands : d >= dist(i)
    IN IF Cardinality(cands) > 1
       THEN {i \in cands : 10 * dist(i) <= 10 * min_dist + alpha_tenths * (max_dist - min_dist)}
       ELSE cands

RestrictedCandidates(v, st, alpha_tenths) == RclOf(st, alpha_tenths, Candidates(v, st))

\* every way the while loop of one vehicle can end (random.choice over the list)
RECURSIVE GraspFill(_, _, _)
GraspFrom(v, st, alpha_tenths, rcl) ==
    IF st.pool = <<>> \/ rcl = {} THEN {st}
    ELSE UNION {GraspFill(v, Advance(v, st, i), alpha_tenths) : i \in rcl}

GraspFill(v, st, alpha_tenths) ==
    GraspFrom(v, st, alpha_tenths, RestrictedCandidates(v, st, alpha_tenths))

RECURSIVE GraspRoutes(_, _, _, _)
GraspRoutes(order, pool, routes, alpha_tenths) ==
    IF order = <<>> \/ pool = <<>> THEN {[routes |-> routes, pool |-> pool]}
    ELSE UNION {GraspRoutes(Tail(order), st.pool, CloseRoute(Head(order), st, routes),
                            alpha_tenths) :
                    st \in GraspFill(Head(order), StartRoute(Head(order), pool),
                                     alpha_tenths)}

\* RobustRouter._grasp_construct: the solutions it can return
_grasp_construct(alpha_tenths) ==
    {Assemble(built) :
        built \in GraspRoutes(SortedVehicles, [i \in 1..Len(points) |-> i], <<>>,
                              alpha_tenths)}

\* --------------------------------------------------------------- no value
None == [none |-> TRUE]
IsNone(x) == "none" \in DOMAIN x

NoSearch == [op |-> "none"]
NoEffects == [map_loads |-> 0, constructions |-> 0, search_steps |-> 0]

\* self.* of the first revision once solve_vrp has processed the payload and
\* built the matrices
Prepared(req) ==
    /\ request_data = req
    /\ vehicles = _create_vehicles(req.vehicles).vehicles
    /\ points = _create_points(req.points).points
    /\ depot = _create_points(req.points).depot
    /\ distance_matrix = _create_distance_matrix(_create_points(req.points).points,
                                                 _create_points(req.points).depot)
    /\ time_matrix = _create_time_matrix(_create_points(req.points).points,
                                         _create_points(req.points).depot)
    /\ graph = "loaded"
    /\ map_available = TRUE

\* ------------------ neighbourhood closure of the first revision's solutions
InitNbr ==
    /\ \E req \in WellFormedRequests : Prepared(req)
    /\ pc = "construct"
    /\ method = "none"
    /\ max_iterations = 0
    /\ solution = None
    /\ best_solution = None
    /\ search = NoSearch
    /\ outcome = "running"
    /\ result = None
    /\ effects = NoEffects

instance_vars == <<request_data, method, max_iterations, map_available, graph,
                   vehicles, points, depot, distance_matrix, time_matrix>>

NbrConstruct ==
    /\ pc = "construct"
    /\ solution' = _create_initial_solution
    /\ pc' = "explore"
    /\ search' = [op |-> "build"]
    /\ UNCHANGED <<instance_vars, best_solution, outcome, result, effects>>

NbrGraspConstruct ==
    /\ pc = "construct"
    /\ solution' \in _grasp_construct(DefaultAlphaTenths)
    /\ pc' = "explore"
    /\ search' = [op |-> "grasp_construct"]
    /\ UNCHANGED <<instance_vars, best_solution, outcome, result, effects>>

NbrSwapIntra ==
    /\ pc = "explore"
    /\ \E neighbor \in Range(_swap_intra_route(solution)) : solution' = neighbor
    /\ search' = [op |-> "swap_intra"]
    /\ UNCHANGED <<pc, instance_vars, best_solution, outcome, result, effects>>

NbrSwapInter ==
    /\ pc = "explore"
    /\ \E neighbor \in Range(_swap_inter_route(solution)) : solution' = neighbor
    /\ search' = [op |-> "swap_inter"]
    /\ UNCHANGED <<pc, instance_vars, best_solution, outcome, result, effects>>

NbrRelocate ==
    /\ pc = "explore"
    /\ \E neighbor \in Range(_relocate(solution)) : solution' = neighbor
    /\ search' = [op |-> "relocate"]
    /\ UNCHANGED <<pc, instance_vars, best_solution, outcome, result, effects>>

NbrTwoOpt ==
    /\ pc = "explore"
    /\ \E neighbor \in Range(_two_opt(solution)) : solution' = neighbor
    /\ search' = [op |-> "two_opt"]
    /\ UNCHANGED <<pc, instance_vars, best_solution, outcome, result, effects>>

NextNbr ==
    \/ NbrConstruct
    \/ NbrGraspConstruct
    \/ NbrSwapIntra
    \/ NbrSwapInter
    \/ NbrRelocate
    \/ NbrTwoOpt

SpecNbr == InitNbr /\ [][NextNbr]_vars

\* ------------------------------------------------ properties of the solutions
\* positions in self.points of the stops of a route dict
StopsOf(route) == {PointById(route.points[i]) : i \in 1..Len(route.points)}

RoutedStops(sol) == UNION {StopsOf(sol.routes[r]) : r \in 1..Len(sol.routes)}

MoveOps == {"swap_intra", "swap_inter", "relocate", "two_opt"}
ConstructOps == {"build", "grasp_construct"}

\* C2 - Skill invariant: in every solution reached from a constructed solution
\* by intra-route swaps, inter-route swaps, relocations and 2-opt reversals,
\* each route flagged feasible carries only stops whose required skills its
\* vehicle has.
SkillInvariant ==
    pc = "explore" =>
        \A r \in 1..Len(solution.routes) :
            solution.routes[r].feasible =>
                UNION {points[p].required_skills : p \in StopsOf(solution.routes[r])}
                    \subseteq vehicles[VehicleById(solution.routes[r].vehicle_id)].skills

\* some stop of the route is reached, after waiting for its window to open,
\* later than its window end
RECURSIVE ReachedLate(_, _, _)
ReachedLate(ids, from, clock) ==
    IF ids = <<>> THEN FALSE
    ELSE LET p == PointById(Head(ids))
             opens == _time_to_minutes(points[p].time_window_start)
             reached == IF clock + time_matrix[from][p] < opens THEN opens
                        ELSE clock + time_matrix[from][p]
         IN \/ reached > _time_to_minutes(points[p].time_window_end)
            \/ ReachedLate(Tail(ids), p, reached + points[p].service_time)

RouteReachedLate(route) ==
    ReachedLate(route.points, 0,
                _time_to_minutes(vehicles[VehicleById(route.vehicle_id)].start_time))

\* C4 - after a neighbourhood move has recomputed the statistics, a route in
\* which some stop is reached later than its time-window end is not flagged
\* feasible.
LateRouteNotFeasible ==
    (pc = "explore" /\ search.op \in MoveOps) =>
        \A r \in 1..Len(solution.routes) :
            RouteReachedLate(solution.routes[r]) => ~solution.routes[r].feasible

\* C5 - the aggregate statistics of every constructed solution and of every
\* neighbour are the sums over its routes, and stats.feasible says that every
\* route is feasible and nothing is unassigned.
StatsDerived ==
    pc = "explore" =>
        /\ solution.stats.total_cost
              = SumSeq([r \in 1..Len(solution.routes) |-> solution.routes[r].cost])
        /\ solution.stats.total_distance
              = SumSeq([r \in 1..Len(solution.routes) |-> solution.routes[r].distance])
        /\ solution.stats.total_points_served
              = SumSeq([r \in 1..Len(solution.routes) |-> Len(solution.routes[r].points)])
        /\ solution.stats.feasible
              = (AllFeasible(solution.routes) /\ solution.unassigned = <<>>)

\* no vehicle of the fleet has the skills the stop requires
Unsatisfiable(p) == \A v \in DOMAIN vehicles : ~HasSkills(v, p)

NamesMissingSkill(reason, p) ==
    reason = SkillReason(p) /\ reason.skills = points[p].required_skills

\* C9 - a stop whose required skills no vehicle has is in no route of a
\* constructed solution, is in unassigned with a reason naming the missing
\* skill requirement, and when it is the only stop there are zero routes.
UnsatisfiableSkillsUnassigned ==
    (pc = "explore" /\ search.op \in ConstructOps) =>
        \A p \in DOMAIN points :
            Unsatisfiable(p) =>
                /\ p \notin RoutedStops(solution)
                /\ \E u \in 1..Len(solution.unassigned) :
                      /\ solution.unassigned[u].point_id = points[p].id
                      /\ \E n \in 1..Len(solution.unassigned[u].reasons) :
                            NamesMissingSkill(solution.unassigned[u].reasons[n], p)
                /\ (Len(points) = 1 => solution.routes = <<>>)

\* the instances of C10: no two stops fit together in any vehicle, each stop
\* fits alone, skills and time windows exclude nothing, a vehicle per stop
PairwiseIncompatible ==
    /\ \A p, q \in DOMAIN points : \A v \in DOMAIN vehicles :
          p # q => \/ points[p].weight + points[q].weight > vehicles[v].capacity
                   \/ points[p].volume + points[q].volume > vehicles[v].volume_capacity
    /\ \A p \in DOMAIN points : \A v \in DOMAIN vehicles :
          /\ points[p].weight <= vehicles[v].capacity
          /\ points[p].volume <= vehicles[v].volume_capacity
          /\ points[p].required_skills = {}
          /\ points[p].time_window_start = vehicles[v].start_time
          /\ points[p].time_window_end = vehicles[v].end_time
    /\ Len(vehicles) >= Len(points)

\* C10 - on such an instance the constructed solutions and everything the
\* neighbourhood moves reach from them have one single-stop route per stop
\* and no unassigned stop.
IncompatibleStopsSingleRoutes ==
    (pc = "explore" /\ PairwiseIncompatible) =>
        /\ Len(solution.routes) = Len(points)
        /\ \A r \in 1..Len(solution.routes) : Len(solution.routes[r].points) = 1
        /\ RoutedStops(solution) = DOMAIN points
        /\ solution.unassigned = <<>>

\* ------------------------------------------------ first revision: _vnd_search
\* the for loop that looks for the best neighbour better than the current one
RECURSIVE BestNeighbor(_, _, _)
BestNeighbor(neighbors, current_solution, best_neighbor) ==
    IF neighbors = <<>> THEN best_neighbor
    ELSE BestNeighbor(Tail(neighbors), current_solution,
            IF /\ _is_better_solution(Head(neighbors), current_solution)
               /\ (IsNone(best_neighbor)
                      \/ _is_better_solution(Head(neighbors), best_neighbor))
            THEN Head(neighbors) ELSE best_neighbor)

\* the locals of _vnd_search at its start; at is the position in the loops:
\* "outer" before the test of the while, "inner" before the test of the inner
\* while, "done" after the outer loop
VndBegin(initial_solution, cap) ==
    [current_solution |-> initial_solution, best_solution |-> initial_solution,
     improved |-> TRUE, iteration |-> 0, k |-> 0, cap |-> cap, at |-> "outer"]

\* the move of the inner loop that goes on from generator k after a success
VndMove_continue(s, best_neighbor) ==
    IF IsNone(best_neighbor) THEN [s EXCEPT !.k = @ + 1]
    ELSE [s EXCEPT !.current_solution = best_neighbor,
                   !.best_solution = IF _is_better_solution(best_neighbor, @)
                                     THEN best_neighbor ELSE @,
                   !.improved = TRUE,
                   !.k = @ + 1]

\* the move of the inner loop once best_neighbor is known
VndMove(s, best_neighbor) ==
    IF IsNone(best_neighbor) THEN [s EXCEPT !.k = @ + 1]
    ELSE [s EXCEPT !.current_solution = best_neighbor,
                   !.best_solution = IF _is_better_solution(best_neighbor, @)
                                     THEN best_neighbor ELSE @,
                   !.improved = TRUE,
                   !.k = 0]

\* one step of _vnd_search: a loop test, or one pass of the inner loop body
VndStep(s) ==
    IF s.at = "outer"
    THEN IF s.improved /\ s.iteration < s.cap
         THEN [s EXCEPT !.improved = FALSE, !.k = 0, !.at = "inner"]
         ELSE [s EXCEPT !.at = "done"]
    ELSE IF s.k < 4
         THEN VndMove(s, BestNeighbor(Neighborhood(s.k, s.current_solution),
                                      s.current_solution, None))
         ELSE [s EXCEPT !.iteration = @ + 1, !.at = "outer"]

RECURSIVE VndRun(_)
VndRun(s) == IF s.at = "done" THEN s.best_solution ELSE VndRun(VndStep(s))

\* RobustRouter._vnd_search as a function of its arguments
_vnd_search(initial_solution, cap) == VndRun(VndBegin(initial_solution, cap))

\* ----------------------------------------------- first revision: _tabu_search
TabuTenure == 10
MaxTabuSize == 50

\* RobustRouter._get_move_difference
_get_move_difference(solution1, solution2) ==
    [type |-> "move",
     routes1 |-> [r \in 1..Len(solution1.routes) |->
                    <<solution1.routes[r].vehicle_id, solution1.routes[r].points>>],
     routes2 |-> [r \in 1..Len(solution2.routes) |->
                    <<solution2.routes[r].vehicle_id, solution2.routes[r].points>>]]

\* the scan of the neighbours of one iteration with an empty tabu list: the
\* first neighbour of least finite value, None when every value is inf
RECURSIVE FirstLeast(_, _)
FirstLeast(neighbors, best_neighbor) ==
    IF neighbors = <<>> THEN best_neighbor
    ELSE FirstLeast(Tail(neighbors),
            IF ValueLess(_evaluate_solution(Head(neighbors)),
                         IF IsNone(best_neighbor) THEN [inf |-> TRUE, v |-> 0]
                         ELSE _evaluate_solution(best_neighbor))
            THEN Head(neighbors) ELSE best_neighbor)

\* the entries that survive the pruning at the end of iteration i
PruneTabu(tabu_list, i) ==
    LET Alive(e) == e.expiry > i
        alive == SelectSeq(tabu_list, Alive)
    IN IF Len(alive) > MaxTabuSize
       THEN SubSeq(alive, Len(alive) - MaxTabuSize + 1, Len(alive))
       ELSE alive

\* ------------------------------------------------ first revision: solve_vrp
Methods == {"vnd", "tabu", "grasp"}
IterationCaps == 0..MaxIter

\* payloads solve_vrp is called with: well-formed ones and one of each defect
SolveFamily ==
    {[vehicles |-> VehiclesPayload(m, va, va),
      points |-> <<DepotData>> \o StopsPayload(n, a, "plain", layout)] :
        m \in 1..NumVehicles, va \in VehicleKinds,
        n \in 1..NumStops, a \in StopKinds, layout \in {"zero", "asc"}}

NoVehiclesRequest ==
    [vehicles |-> <<>>, points |-> <<DepotData>> \o StopsPayload(1, "plain", "plain", "asc")]
NoPointsRequest ==
    [vehicles |-> VehiclesPayload(1, "mid", "mid"), points |-> <<>>]
BadCoordinateRequest ==
    [vehicles |-> VehiclesPayload(1, "mid", "mid"),
     points |-> <<DepotData, [StopData("plain", 1, 1) EXCEPT !.lat = NotANumber]>>]
BadTimeRequest ==
    [vehicles |-> VehiclesPayload(1, "mid", "mid"),
     points |-> <<DepotData, [StopData("plain", 1, 1) EXCEPT !.time_window_end = TBad]>>]

MalformedRequests ==
    {NoVehiclesRequest, NoPointsRequest, BadCoordinateRequest, BadTimeRequest}

SolveRequests == SolveFamily \cup MalformedRequests

Init ==
    /\ request_data \in SolveRequests
    /\ method \in Methods
    /\ max_iterations \in IterationCaps
    /\ map_available \in BOOLEAN
    /\ graph = "None"
    /\ vehicles = <<>>
    /\ points = <<>>
    /\ depot = NoDepot
    /\ distance_matrix = <<>>
    /\ time_matrix = <<>>
    /\ solution = None
    /\ best_solution = None
    /\ search = NoSearch
    /\ outcome = "running"
    /\ result = None
    /\ effects = NoEffects
    /\ pc = "validate"

Raise(exception) ==
    /\ outcome' = exception
    /\ pc' = "done"

\* solve_vrp, the two tests on the payload
Validate ==
    /\ pc = "validate"
    /\ IF request_data.vehicles = <<>> \/ request_data.points = <<>>
       THEN Raise("ValueError")
       ELSE pc' = "load_map" /\ UNCHANGED outcome
    /\ UNCHANGED <<instance_vars, solution, best_solution, search, result, effects>>

\* solve_vrp, self.graph is None and not self.load_map()
LoadMap ==
    /\ pc = "load_map"
    /\ effects' = [effects EXCEPT !.map_loads = @ + 1]
    /\ IF map_available
       THEN graph' = "loaded" /\ pc' = "create" /\ UNCHANGED outcome
       ELSE Raise("RuntimeError") /\ UNCHANGED graph
    /\ UNCHANGED <<request_data, method, max_iterations, map_available, vehicles,
                   points, depot, distance_matrix, time_matrix, solution,
                   best_solution, search, result>>

\* solve_vrp, _create_vehicles then _create_points
ProcessInput ==
    /\ pc = "create"
    /\ vehicles' = _create_vehicles(request_data.vehicles).vehicles
    /\ IF _create_points(request_data.points).ok
       THEN /\ points' = _create_points(request_data.points).points
            /\ depot' = _create_points(request_data.points).depot
            /\ pc' = "matrices"
            /\ UNCHANGED outcome
       ELSE Raise("ValueError") /\ UNCHANGED <<points, depot>>
    /\ UNCHANGED <<request_data, method, max_iterations, map_available, graph,
                   distance_matrix, time_matrix, solution, best_solution, search,
                   result, effects>>

\* solve_vrp, _create_distance_time_matrices
CreateMatrices ==
    /\ pc = "matrices"
    /\ distance_matrix' = _create_distance_matrix(points, depot)
    /\ time_matrix' = _create_time_matrix(points, depot)
    /\ pc' = "construct"
    /\ UNCHANGED <<request_data, method, max_iterations, map_available, graph,
                   vehicles, points, depot, solution, best_solution, search,
                   outcome, result, effects>>

\* solve_vrp, initial_solution = self._create_initial_solution()
InitialSolution ==
    /\ pc = "construct"
    /\ solution' = _create_initial_solution
    /\ effects' = [effects EXCEPT !.constructions = @ + 1]
    /\ search' = [op |-> "build"]
    /\ pc' = "dispatch"
    /\ UNCHANGED <<instance_vars, best_solution, outcome, result>>

\* the locals of the running _vnd_search as one record, and back
VndLocals ==
    [current_solution |-> solution, best_solution |-> best_solution,
     improved |-> search.improved, iteration |-> search.iteration, k |-> search.k,
     cap |-> max_iterations, at |-> search.at]

SetVndLocals(s) ==
    /\ solution' = s.current_solution
    /\ best_solution' = s.best_solution
    /\ search' = [op |-> "vnd", improved |-> s.improved, iteration |-> s.iteration,
                  k |-> s.k, at |-> s.at]

\* solve_vrp calls _vnd_search(initial_solution, max_iterations)
VndStart ==
    /\ pc = "dispatch"
    /\ method = "vnd"
    /\ SetVndLocals(VndBegin(solution, max_iterations))
    /\ pc' = "vnd"
    /\ UNCHANGED <<instance_vars, outcome, result, effects>>

\* one loop test or one pass of the inner loop body of _vnd_search
VndAdvance ==
    /\ pc = "vnd"
    /\ search.at # "done"
    /\ \E s \in {VndStep(VndLocals)} : SetVndLocals(s)
    /\ effects' = [effects EXCEPT !.search_steps = @ + 1]
    /\ UNCHANGED <<pc, instance_vars, outcome, result>>

\* return best_solution
VndReturn ==
    /\ pc = "vnd"
    /\ search.at = "done"
    /\ result' = best_solution
    /\ pc' = "finish"
    /\ UNCHANGED <<instance_vars, solution, best_solution, search, outcome, effects>>

\* a local name of a function that no statement has bound yet
Unbound == 0 - 1

\* solve_vrp calls _tabu_search(initial_solution, max_iterations); iteration
\* is unbound until the for loop binds it
TabuStart ==
    /\ pc = "dispatch"
    /\ method = "tabu"
    /\ best_solution' = solution
    /\ search' = [op |-> "tabu", tabu_list |-> <<>>, no_improvement |-> 0,
                  iteration |-> Unbound, next |-> 0]
    /\ pc' = "tabu"
    /\ UNCHANGED <<instance_vars, solution, outcome, result, effects>>

\* the body of the for loop once a neighbour has been selected
TabuAccept(best_neighbor, i) ==
    /\ solution' = best_neighbor
    /\ best_solution' =
          IF ValueLess(_evaluate_solution(best_neighbor), _evaluate_solution(best_solution))
          THEN best_neighbor ELSE best_solution
    /\ search' = [search EXCEPT
          !.iteration = i,
          !.next = i + 1,
          !.no_improvement =
              IF ValueLess(_evaluate_solution(best_neighbor),
                           _evaluate_solution(best_solution))
              THEN 0 ELSE @ + 1,
          !.tabu_list =
              PruneTabu(Append(@, [move |-> _get_move_difference(solution, best_neighbor),
                                   expiry |-> i + TabuTenure]), i)]
    /\ pc' = "tabu"
    /\ UNCHANGED outcome

\* one iteration of the for loop of _tabu_search; _is_same_move subscripts the
\* (move, expiry) tuples of the tabu list with a string
TabuIteration ==
    /\ pc = "tabu"
    /\ search.next < max_iterations
    /\ effects' = [effects EXCEPT !.search_steps = @ + 1]
    /\ IF search.no_improvement >= max_iterations \div 4
       THEN /\ search' = [search EXCEPT !.iteration = search.next]
            /\ pc' = "tabu_end"
            /\ UNCHANGED <<solution, best_solution, outcome>>
       ELSE IF _generate_all_neighbors(solution) # <<>> /\ search.tabu_list # <<>>
       THEN /\ Raise("TypeError")
            /\ search' = [search EXCEPT !.iteration = search.next]
            /\ UNCHANGED <<solution, best_solution>>
       ELSE \E best_neighbor \in {FirstLeast(_generate_all_neighbors(solution), None)} :
               IF IsNone(best_neighbor)
               THEN /\ search' = [search EXCEPT !.iteration = search.next]
                    /\ pc' = "tabu_end"
                    /\ UNCHANGED <<solution, best_solution, outcome>>
               ELSE TabuAccept(best_neighbor, search.next)
    /\ UNCHANGED <<instance_vars, result>>

\* after the loop: the closing print reads iteration, then return global_best
TabuReturn ==
    /\ \/ pc = "tabu_end"
       \/ pc = "tabu" /\ search.next >= max_iterations
    /\ IF search.iteration = Unbound
       THEN Raise("UnboundLocalError") /\ UNCHANGED result
       ELSE result' = best_solution /\ pc' = "finish" /\ UNCHANGED outcome
    /\ UNCHANGED <<instance_vars, solution, best_solution, search, effects>>

\* solve_vrp calls _grasp(max_iterations)
GraspStart ==
    /\ pc = "dispatch"
    /\ method = "grasp"
    /\ best_solution' = None
    /\ search' = [op |-> "grasp", next |-> 0, replaced |-> FALSE]
    /\ pc' = "grasp"
    /\ UNCHANGED <<instance_vars, solution, outcome, result, effects>>

\* one iteration of _grasp: construction, local search, update of the best
GraspIteration ==
    /\ pc = "grasp"
    /\ search.next < max_iterations
    /\ \E constructed \in _grasp_construct(DefaultAlphaTenths) :
          \E improved \in {_vnd_search(constructed, VndIterationsInGrasp)} :
              /\ solution' = improved
              /\ IF IsNone(best_solution)
                 THEN /\ best_solution' = improved
                      /\ search' = [search EXCEPT !.next = @ + 1, !.replaced = FALSE]
                 ELSE IF _is_better_solution(improved, best_solution)
                 THEN /\ best_solution' = improved
                      /\ search' = [search EXCEPT !.next = @ + 1, !.replaced = TRUE]
                 ELSE /\ UNCHANGED best_solution
                      /\ search' = [search EXCEPT !.next = @ + 1, !.replaced = FALSE]
    /\ effects' = [effects EXCEPT !.constructions = @ + 1, !.search_steps = @ + 1]
    /\ UNCHANGED <<pc, instance_vars, outcome, result>>

\* return best_solution
GraspReturn ==
    /\ pc = "grasp"
    /\ search.next >= max_iterations
    /\ result' = best_solution
    /\ pc' = "finish"
    /\ UNCHANGED <<instance_vars, solution, best_solution, search, outcome, effects>>

\* solve_vrp, the closing prints subscript final_solution, then return it
Finish ==
    /\ pc = "finish"
    /\ IF IsNone(result) THEN Raise("TypeError")
       ELSE outcome' = "returned" /\ pc' = "done"
    /\ UNCHANGED <<instance_vars, solution, best_solution, search, result, effects>>

Next ==
    \/ Validate
    \/ LoadMap
    \/ ProcessInput
    \/ CreateMatrices
    \/ InitialSolution
    \/ VndStart
    \/ VndAdvance
    \/ VndReturn
    \/ TabuStart
    \/ TabuIteration
    \/ TabuReturn
    \/ GraspStart
    \/ GraspIteration
    \/ GraspReturn
    \/ Finish

Spec == Init /\ [][Next]_vars

\* ------------------------------------------------- properties of solve_vrp
\* the order on solutions: a feasible solution beats an infeasible one, then
\* more stops served, then lower total cost
StrictlyBetter(a, b) ==
    \/ a.stats.feasible /\ ~b.stats.feasible
    \/ /\ a.stats.feasible = b.stats.feasible
       /\ \/ a.stats.total_points_served > b.stats.total_points_served
          \/ /\ a.stats.total_points_served = b.stats.total_points_served
             /\ a.stats.total_cost < b.stats.total_cost

\* C6 - Monotonic improvement: a step of VND, Tabu or GRASP that replaces the
\* global best replaces it by a strictly better solution, and the solution
\* solve_vrp returns is the global best at the end of the search.
MonotonicImprovement ==
    [][/\ (~IsNone(best_solution) /\ best_solution' # best_solution)
              => (~IsNone(best_solution') /\ StrictlyBetter(best_solution', best_solution))
       /\ (outcome # "returned" /\ outcome' = "returned")
              => (~IsNone(result') /\ result' = best_solution')]_vars

\* a GRASP run whose last iteration replaced the best of the earlier ones has
\* returned
ReplacedBestReturned ==
    /\ outcome = "returned"
    /\ method = "grasp"
    /\ search.replaced
    /\ result = best_solution

\* C7 - Graceful degradation: with a well-formed payload of at least one
\* vehicle and one stop and the road network loaded, solve_vrp ends by
\* returning a solution, whatever the method and the iteration cap; when no
\* stop could be assigned every stop is in unassigned.
GracefulDegradation ==
    (pc = "done" /\ request_data \in SolveFamily /\ graph = "loaded") =>
        /\ outcome = "returned"
        /\ ~IsNone(result)
        /\ (result.routes = <<>> => Len(result.unassigned) = Len(points))

\* C8 - InputError fails fast: with no vehicles, no stops, a malformed
\* coordinate or a malformed time string, solve_vrp loads no map, constructs
\* nothing, searches nothing, and ends with the input error.
InputErrorFailsFast ==
    request_data \in MalformedRequests =>
        /\ effects = NoEffects
        /\ (pc = "done" => outcome = "ValueError")

\* ======================= second revision: routers/optimization.py (API engine)
\* RobustRouter.from_json: every entry of data['points'] becomes a Point, the
\* depot entry included; add_points / add_vehicles keep the payload order.
from_json(data) ==
    [points |-> [i \in 1..Len(data.points) |->
                    [data.points[i] EXCEPT !.lat = FloatOf(@), !.lng = FloatOf(@)]],
     vehicles |-> data.vehicles]

\* RobustRouter._create_distance_time_matrices over self.points; the time is the
\* distance over the first vehicle's speed_mps
_create_distance_time_matrices(ps, vs) ==
    [distance |-> [i \in 1..Len(ps) |-> [j \in 1..Len(ps) |->
                      IF i = j THEN 0 ELSE RoadLength(ps[i], ps[j])]],
     time |-> [i \in 1..Len(ps) |-> [j \in 1..Len(ps) |->
                      IF i = j THEN 0
                      ELSE (RoadLength(ps[i], ps[j]) * 36) \div (vs[1].speed * 10)]]]

\* class Route of the second revision, __init__
RoutersRoute(v) ==
    [vehicle |-> v, points |-> <<>>, distance |-> 0, duration |-> 0, cost |-> 0,
     load |-> 0, volume |-> 0, time_windows_violation |-> 0,
     capacity_violation |-> 0, skill_requirements |-> {}]

Excess(amount, limit) == IF amount > limit THEN amount - limit ELSE 0

\* Route.add_point of the second revision: the fixed cost is guarded by
\* "not self.points" after the append, so it is never added
RoutersAddPoint(route, p, distance, duration) ==
    [route EXCEPT
        !.points = Append(@, p),
        !.distance = @ + distance,
        !.duration = @ + duration,
        !.load = @ + points[p].weight,
        !.volume = @ + points[p].volume,
        !.skill_requirements = @ \cup points[p].required_skills,
        !.capacity_violation =
            @ + Excess(route.load + points[p].weight, vehicles[route.vehicle].max_weight)
              + Excess(route.volume + points[p].volume,
                       vehicles[route.vehicle].volume_capacity),
        !.cost = ((route.distance + distance) * vehicles[route.vehicle].cost_per_km)
                     \div 1000]

\* RobustRouter._can_add_point: tests the route's load and volume fields
_can_add_point(route, p) ==
    /\ ~(route.load + points[p].weight > vehicles[route.vehicle].max_weight)
    /\ ~(route.volume + points[p].volume > vehicles[route.vehicle].volume_capacity)
    /\ points[p].required_skills \subseteq vehicles[route.vehicle].skills

\* _generate_initial_solution, the inner loop over unassigned_points[:]
RECURSIVE GreedyFill(_, _, _)
GreedyFill(route, pool, left) ==
    IF pool = <<>> THEN [route |-> route, left |-> left]
    ELSE IF _can_add_point(route, Head(pool))
         THEN GreedyFill(RoutersAddPoint(route, Head(pool), 0, 0), Tail(pool), left)
         ELSE GreedyFill(route, Tail(pool), Append(left, Head(pool)))

\* the route of one vehicle is kept, the next vehicle gets what is left
RECURSIVE GreedyRoutes(_, _, _)
GreedyKeep(v, filled, routes) ==
    GreedyRoutes(v + 1, filled.left, Append(routes, filled.route))

\* _generate_initial_solution, the loop over self.vehicles.values()
GreedyRoutes(v, pool, routes) ==
    IF v > Len(vehicles) THEN [routes |-> routes, left |-> pool]
    ELSE GreedyKeep(v, GreedyFill(RoutersRoute(v), pool, <<>>), routes)

\* RobustRouter._generate_initial_solution: the points left over are logged
\* and dropped; ValueError when there is no point or none could be assigned
GreedyOutcome(built) ==
    [ok |-> Len(points) # 0 /\ Len(built.left) < Len(points),
     routes |-> built.routes,
     unassigned_points |-> built.left]

_generate_initial_solution ==
    GreedyOutcome(GreedyRoutes(1, [i \in 1..Len(points) |-> i], <<>>))

\* RobustRouter._calculate_solution_cost
_calculate_solution_cost(routes) ==
    SumSeq([r \in 1..Len(routes) |->
              routes[r].cost + routes[r].capacity_violation * 1000
                             + routes[r].time_windows_violation * 100])

\* RobustRouter._calculate_route_cost over a list of points of vehicle v
_calculate_route_cost(v, pts) ==
    IF pts = <<>> THEN 0
    ELSE (SumSeq([i \in 1..(Len(pts) - 1) |-> distance_matrix[pts[i]][pts[i + 1]]])
             \div 1000) * vehicles[v].cost_per_km + vehicles[v].fixed_cost

AnyPoints(routes) == \E r \in 1..Len(routes) : routes[r].points # <<>>

\* RobustRouter._format_solution: empty routes are skipped; the dictionary has
\* no entry for points that are in no route
_format_solution(routes) ==
    [routes |-> SelectSeq([r \in 1..Len(routes) |->
                             [vehicle_id |-> vehicles[routes[r].vehicle].id,
                              points |-> [k \in 1..Len(routes[r].points) |->
                                             points[routes[r].points[k]].id],
                              distance |-> routes[r].distance \div 1000,
                              duration |-> routes[r].duration \div 60,
                              cost |-> routes[r].cost,
                              load |-> routes[r].load,
                              volume |-> routes[r].volume]],
                          LAMBDA fr : fr.points # <<>>),
     total_distance |-> SumSeq([r \in 1..Len(routes) |-> routes[r].distance]) \div 1000,
     total_duration |-> SumSeq([r \in 1..Len(routes) |-> routes[r].duration]) \div 60,
     total_cost |-> SumSeq([r \in 1..Len(routes) |-> routes[r].cost]),
     vehicles_used |-> Cardinality({r \in 1..Len(routes) : routes[r].points # <<>>})]

\* ------------------------------------- second revision: neighbourhood moves
\* Each operator draws its routes and positions at random: the operator is the
\* set of lists of routes a call can return. Only the points lists are
\* changed; load, volume, cost and the violations are copied as they were.

\* _relocate_neighborhood, the scan for the cheapest position in to_route
BestPos(v, pts, p) ==
    CHOOSE pos \in 1..(Len(pts) + 1) :
        \A other \in 1..(Len(pts) + 1) :
            \/ _calculate_route_cost(v, InsertAt(pts, pos, p))
                   < _calculate_route_cost(v, InsertAt(pts, other, p))
            \/ /\ _calculate_route_cost(v, InsertAt(pts, pos, p))
                      = _calculate_route_cost(v, InsertAt(pts, other, p))
               /\ pos <= other

InsertBest(popped, t, p) ==
    [popped EXCEPT ![t].points =
        InsertAt(@, BestPos(popped[t].vehicle, popped[t].points, p), p)]

\* _relocate_neighborhood after from_route.points.pop(point_idx): the first
\* other route that _can_add_point accepts takes the point, else it goes back
RelocateInto(new_solution, popped, f, p) ==
    IF \E t \in 1..Len(popped) : t # f /\ _can_add_point(popped[t], p)
    THEN InsertBest(popped,
                    CHOOSE t \in 1..Len(popped) :
                        /\ t # f /\ _can_add_point(popped[t], p)
                        /\ \A u \in 1..(t - 1) : u = f \/ ~_can_add_point(popped[u], p),
                    p)
    ELSE new_solution

RelocateFrom(new_solution, f, i) ==
    IF new_solution[f].points = <<>> THEN new_solution
    ELSE RelocateInto(new_solution,
                      [new_solution EXCEPT ![f].points = RemoveAt(@, i)],
                      f, new_solution[f].points[i])

\* RobustRouter._relocate_neighborhood
_relocate_neighborhood(routes) ==
    IF Len(routes) < 2 THEN {routes}
    ELSE {RelocateFrom(routes, m[1], m[2]) :
            m \in {x \in (1..Len(routes)) \X (1..Len(points)) :
                     routes[x[1]].points # <<>> => x[2] <= Len(routes[x[1]].points)}}

\* _exchange_neighborhood for the drawn routes and positions: the temporary
\* routes lose a point from their lists and keep their load and volume
ExchangeAt(new_solution, r1, r2, i, j) ==
    IF new_solution[r1].points = <<>> \/ new_solution[r2].points = <<>>
    THEN new_solution
    ELSE IF /\ _can_add_point([new_solution[r1] EXCEPT !.points = RemoveAt(@, i)],
                              new_solution[r2].points[j])
            /\ _can_add_point([new_solution[r2] EXCEPT !.points = RemoveAt(@, j)],
                              new_solution[r1].points[i])
         THEN [new_solution EXCEPT ![r1].points[i] = new_solution[r2].points[j],
                                   ![r2].points[j] = new_solution[r1].points[i]]
         ELSE new_solution

\* RobustRouter._exchange_neighborhood
_exchange_neighborhood(routes) ==
    IF Len(routes) < 2 THEN {routes}
    ELSE {ExchangeAt(routes, m[1], m[2], m[3], m[4]) :
            m \in {x \in (1..Len(routes)) \X (1..Len(routes))
                            \X (1..Len(points)) \X (1..Len(points)) :
                     /\ x[1] # x[2]
                     /\ routes[x[1]].points # <<>> => x[3] <= Len(routes[x[1]].points)
                     /\ routes[x[2]].points # <<>> => x[4] <= Len(routes[x[2]].points)}}

\* RobustRouter._two_opt_neighborhood
_two_opt_neighborhood(routes) ==
    {IF Len(routes[m[1]].points) < 2 THEN routes
     ELSE [routes EXCEPT ![m[1]].points = ReversedSpan(@, m[2], m[3])] :
        m \in {x \in (1..Len(routes)) \X (1..Len(points)) \X (1..Len(points)) :
                 Len(routes[x[1]].points) >= 2 =>
                     x[2] < x[3] /\ x[3] <= Len(routes[x[1]].points)}}

\* RobustRouter._generate_neighbor: one of the three operators, drawn at random
_generate_neighbor(routes) ==
    _relocate_neighborhood(routes) \cup _exchange_neighborhood(routes)
        \cup _two_opt_neighborhood(routes)

\* ------------------------------ second revision: GRASP and the local search
\* RobustRouter._calculate_insertion_cost
_calculate_insertion_cost(route, p) ==
    IF route.points = <<>> THEN 0
    ELSE distance_matrix[route.points[Len(route.points)]][p]

\* candidates.sort(key=cost) is stable: position n of the sorted list holds the
\* candidate that exactly n - 1 others precede by cost, or by place on a tie
SortedCandidates(route, cands) ==
    [n \in 1..Len(cands) |->
        cands[CHOOSE i \in 1..Len(cands) :
                 Cardinality({j \in 1..Len(cands) :
                     \/ _calculate_insertion_cost(route, cands[j])
                            < _calculate_insertion_cost(route, cands[i])
                     \/ /\ _calculate_insertion_cost(route, cands[j])
                               = _calculate_insertion_cost(route, cands[i])
                        /\ j < i}) = n - 1]]

\* candidates[:max_index] with max_index = max(1, int(len(candidates) * alpha))
RoutersRcl(sorted, alpha_tenths) ==
    {sorted[n] : n \in 1..(IF (Len(sorted) * alpha_tenths) \div 10 > 1
                           THEN (Len(sorted) * alpha_tenths) \div 10 ELSE 1)}

RECURSIVE RoutersGraspFill(_, _, _)
RoutersGraspPick(route, pool, alpha_tenths, cands) ==
    IF cands = <<>> THEN {[route |-> route, left |-> pool]}
    ELSE UNION {RoutersGraspFill(RoutersAddPoint(route, p, 0, 0),
                                 SelectSeq(pool, LAMBDA q : q # p), alpha_tenths) :
                  p \in RoutersRcl(SortedCandidates(route, cands), alpha_tenths)}

\* _grasp_construction, the while loop of one vehicle
RoutersGraspFill(route, pool, alpha_tenths) ==
    RoutersGraspPick(route, pool, alpha_tenths,
                     SelectSeq(pool, LAMBDA q : _can_add_point(route, q)))

\* _grasp_construction, the loop over self.vehicles.values()
RECURSIVE RoutersGraspRoutes(_, _, _, _)
RoutersGraspRoutes(v, pool, routes, alpha_tenths) ==
    IF v > Len(vehicles) THEN {routes}
    ELSE UNION {RoutersGraspRoutes(v + 1, filled.left, Append(routes, filled.route),
                                   alpha_tenths) :
                  filled \in RoutersGraspFill(RoutersRoute(v), pool, alpha_tenths)}

\* RobustRouter._grasp_construction: the lists of routes a call can return
_grasp_construction(alpha_tenths) ==
    RoutersGraspRoutes(1, [i \in 1..Len(points) |-> i], <<>>, alpha_tenths)

\* the list neighborhoods of _local_search and _solve_with_vnd, 1-based
RoutersNeighborhood(k, routes) ==
    CASE k = 1 -> _relocate_neighborhood(routes)
      [] k = 2 -> _exchange_neighborhood(routes)
      [] k = 3 -> _two_opt_neighborhood(routes)

\* _local_search from neighbourhood k on: a cheaper neighbour replaces
\* best_solution and the scan restarts, the pass that finds none ends the loop
RECURSIVE LocalFrom(_, _)
LocalFrom(k, best) ==
    IF k > 3 THEN {best}
    ELSE UNION {IF _calculate_solution_cost(n) < _calculate_solution_cost(best)
                THEN LocalFrom(1, n) ELSE LocalFrom(k + 1, best) :
                  n \in RoutersNeighborhood(k, best)}

\* RobustRouter._local_search: the lists of routes a call can return
_local_search(routes) == LocalFrom(1, routes)

\* one pass of the while loop of _solve_with_vnd from neighbourhood k on
RECURSIVE VndPassFrom(_, _, _)
VndPassFrom(k, routes, best_cost) ==
    IF k > 3 THEN {[routes |-> routes, improved |-> FALSE]}
    ELSE UNION {IF AnyPoints(n) /\ _calculate_solution_cost(n) < best_cost
                THEN {[routes |-> n, improved |-> TRUE]}
                ELSE VndPassFrom(k + 1, routes, best_cost) :
                  n \in RoutersNeighborhood(k, routes)}

\* ------------------------------------- second revision: solve_from_json
Finite(c) == [inf |-> FALSE, v |-> c]
Infinity == [inf |-> TRUE, v |-> 0]

InitRouters ==
    /\ request_data \in SolveFamily
    /\ method \in Methods
    /\ max_iterations \in IterationCaps
    /\ map_available \in BOOLEAN
    /\ graph = "None"
    /\ vehicles = <<>>
    /\ points = <<>>
    /\ depot = NoDepot
    /\ distance_matrix = <<>>
    /\ time_matrix = <<>>
    /\ solution = None
    /\ best_solution = None
    /\ search = NoSearch
    /\ outcome = "running"
    /\ result = None
    /\ effects = NoEffects
    /\ pc = "routers_parse"

\* solve_from_json: from_json, _validate_data, add_points, add_vehicles
RoutersParse ==
    /\ pc = "routers_parse"
    /\ IF from_json(request_data).points = <<>> \/ from_json(request_data).vehicles = <<>>
       THEN Raise("ValueError") /\ UNCHANGED <<points, vehicles>>
       ELSE /\ points' = from_json(request_data).points
            /\ vehicles' = from_json(request_data).vehicles
            /\ pc' = "routers_map"
            /\ UNCHANGED outcome
    /\ UNCHANGED <<request_data, method, max_iterations, map_available, graph, depot,
                   distance_matrix, time_matrix, solution, best_solution, search,
                   result, effects>>

\* solve_from_json: _load_map_for_points, ValueError after the last attempt
RoutersLoadMap ==
    /\ pc = "routers_map"
    /\ effects' = [effects EXCEPT !.map_loads = @ + 1]
    /\ IF map_available
       THEN graph' = "loaded" /\ pc' = "routers_solve" /\ UNCHANGED outcome
       ELSE Raise("ValueError") /\ UNCHANGED graph
    /\ UNCHANGED <<request_data, method, max_iterations, map_available, vehicles,
                   points, depot, distance_matrix, time_matrix, solution,
                   best_solution, search, result>>

\* solve_vrp of the second revision up to the choice of the method
RoutersSolve ==
    /\ pc = "routers_solve"
    /\ distance_matrix' = _create_distance_time_matrices(points, vehicles).distance
    /\ time_matrix' = _create_distance_time_matrices(points, vehicles).time
    /\ pc' = "routers_start"
    /\ UNCHANGED <<request_data, method, max_iterations, map_available, graph,
                   vehicles, points, depot, solution, best_solution, search,
                   outcome, result, effects>>

RoutersBegin(initial) ==
    IF initial.ok
    THEN /\ solution' = [routes |-> initial.routes]
         /\ best_solution' = [routes |-> initial.routes]
         /\ search' = [op |-> method, iteration |-> 0, improved |-> TRUE,
                       best_cost |-> Finite(_calculate_solution_cost(initial.routes)),
                       unassigned_points |-> initial.unassigned_points]
         /\ pc' = "routers_search"
         /\ UNCHANGED outcome
    ELSE Raise("ValueError") /\ UNCHANGED <<solution, best_solution, search>>

\* _solve_with_vnd / _solve_with_tabu_search / _solve_with_grasp before the loop
RoutersStart ==
    /\ pc = "routers_start"
    /\ IF method = "grasp"
       THEN /\ search' = [op |-> method, iteration |-> 0, improved |-> TRUE,
                          best_cost |-> Infinity, unassigned_points |-> <<>>]
            /\ pc' = "routers_search"
            /\ UNCHANGED <<solution, best_solution, outcome, effects>>
       ELSE /\ RoutersBegin(_generate_initial_solution)
            /\ effects' = [effects EXCEPT !.constructions = @ + 1]
    /\ UNCHANGED <<instance_vars, result>>

\* _solve_with_vnd, one pass of "while improved and iteration < max_iterations"
RoutersVndPass ==
    /\ pc = "routers_search" /\ method = "vnd"
    /\ search.improved /\ search.iteration < max_iterations
    /\ \E pass \in VndPassFrom(1, solution.routes, search.best_cost.v) :
          /\ solution' = [routes |-> pass.routes]
          /\ best_solution' = IF pass.improved THEN [routes |-> pass.routes]
                                               ELSE best_solution
          /\ search' = [search EXCEPT
                          !.improved = pass.improved,
                          !.iteration = @ + 1,
                          !.best_cost = IF pass.improved
                                        THEN Finite(_calculate_solution_cost(pass.routes))
                                        ELSE @]
    /\ effects' = [effects EXCEPT !.search_steps = @ + 1]
    /\ UNCHANGED <<instance_vars, pc, outcome, result>>

\* _solve_with_tabu_search, one iteration: the ten neighbours are sorted by
\* cost and no copy is ever equal to an entry of tabu_list, so the cheapest of
\* the ten becomes current_solution; any neighbour can be that one
RoutersTabuIteration ==
    /\ pc = "routers_search" /\ method = "tabu"
    /\ search.iteration < max_iterations
    /\ \E best_neighbor \in _generate_neighbor(solution.routes) :
          /\ solution' = [routes |-> best_neighbor]
          /\ IF _calculate_solution_cost(best_neighbor) < search.best_cost.v
             THEN /\ best_solution' = [routes |-> best_neighbor]
                  /\ search' = [search EXCEPT
                        !.iteration = @ + 1,
                        !.best_cost = Finite(_calculate_solution_cost(best_neighbor))]
             ELSE /\ search' = [search EXCEPT !.iteration = @ + 1]
                  /\ UNCHANGED best_solution
    /\ effects' = [effects EXCEPT !.search_steps = @ + 1]
    /\ UNCHANGED <<instance_vars, pc, outcome, result>>

\* _solve_with_grasp, one iteration
RoutersGraspIteration ==
    /\ pc = "routers_search" /\ method = "grasp"
    /\ search.iteration < max_iterations
    /\ \E constructed \in _grasp_construction(DefaultAlphaTenths) :
       \E improved_solution \in _local_search(constructed) :
          /\ solution' = [routes |-> improved_solution]
          /\ IF ValueLess(Finite(_calculate_solution_cost(improved_solution)),
                          search.best_cost)
             THEN /\ best_solution' = [routes |-> improved_solution]
                  /\ search' = [search EXCEPT
                        !.iteration = @ + 1,
                        !.best_cost = Finite(_calculate_solution_cost(improved_solution))]
             ELSE /\ search' = [search EXCEPT !.iteration = @ + 1]
                  /\ UNCHANGED best_solution
    /\ effects' = [effects EXCEPT !.constructions = @ + 1, !.search_steps = @ + 1]
    /\ UNCHANGED <<instance_vars, pc, outcome, result>>

\* the end of the three methods: _format_solution(best); VND raises when no
\* route has points, GRASP formats None when it ran no iteration and solve_vrp
\* turns the TypeError into ValueError
RoutersReturn ==
    /\ pc = "routers_search"
    /\ IF method = "vnd" THEN ~(search.improved /\ search.iteration < max_iterations)
       ELSE search.iteration >= max_iterations
    /\ IF IsNone(best_solution) THEN Raise("ValueError") /\ UNCHANGED result
       ELSE IF method = "vnd" /\ ~AnyPoints(best_solution.routes)
            THEN Raise("ValueError") /\ UNCHANGED result
       ELSE /\ result' = _format_solution(best_solution.routes)
            /\ outcome' = "returned"
            /\ pc' = "done"
    /\ UNCHANGED <<instance_vars, solution, best_solution, search, effects>>

NextRouters ==
    \/ RoutersParse
    \/ RoutersLoadMap
    \/ RoutersSolve
    \/ RoutersStart
    \/ RoutersVndPass
    \/ RoutersTabuIteration
    \/ RoutersGraspIteration
    \/ RoutersReturn

SpecRouters == InitRouters /\ [][NextRouters]_vars

\* how often a stop id occurs in the routes and the unassigned list of sol
Occurrences(sol, id) ==
    SumSeq([r \in 1..Len(sol.routes) |->
              Cardinality({k \in 1..Len(sol.routes[r].points) :
                             sol.routes[r].points[k] = id})])
    + (IF "unassigned" \in DOMAIN sol
       THEN Cardinality({u \in 1..Len(sol.unassigned) : sol.unassigned[u].point_id = id})
       ELSE 0)

\* C1 - Conservation: in a returned Solution every stop of the input other
\* than the depot is exactly once in exactly one route or exactly once in the
\* unassigned list.
Conservation ==
    (pc = "done" /\ outcome = "returned") =>
        \A p \in 1..Len(points) :
            points[p].type # "depot" => Occurrences(result, points[p].id) = 1

\* the sums over the stops that are in the route now
ActualWeight(route) == SumSeq([k \in 1..Len(route.points) |-> points[route.points[k]].weight])
ActualVolume(route) == SumSeq([k \in 1..Len(route.points) |-> points[route.points[k]].volume])

\* C3 - Capacity invariant: in every solution reached from a constructed one
\* by neighbourhood operators, a route whose record shows no violation carries
\* stops whose weights and volumes, summed over the stops now in the route,
\* are within the vehicle's capacities.
CapacityInvariant ==
    (pc = "routers_search" /\ ~IsNone(solution)) =>
        \A r \in 1..Len(solution.routes) :
            (solution.routes[r].capacity_violation = 0
                /\ solution.routes[r].time_windows_violation = 0)
                => /\ ActualWeight(solution.routes[r])
                        <= vehicles[solution.routes[r].vehicle].max_weight
                   /\ ActualVolume(solution.routes[r])
                        <= vehicles[solution.routes[r].vehicle].volume_capacity

\* the reason list the three tests give for stop p when each test looks at
\* every vehicle: skills, then capacity, then operating window
NoVehicleSkilled(p) == ~\E v \in DOMAIN vehicles : HasSkills(v, p)
NoVehicleLargeEnough(p) ==
    ~\E v \in DOMAIN vehicles :
        /\ vehicles[v].capacity >= points[p].weight
        /\ vehicles[v].volume_capacity >= points[p].volume
NoVehicleWindowOverlaps(p) ==
    ~\E v \in DOMAIN vehicles :
        /\ _time_to_minutes(points[p].time_window_start)
              <= _time_to_minutes(vehicles[v].end_time)
        /\ _time_to_minutes(points[p].time_window_end)
              >= _time_to_minutes(vehicles[v].start_time)

ExactReasons(p) ==
    IF ~NoVehicleSkilled(p) /\ ~NoVehicleLargeEnough(p) /\ ~NoVehicleWindowOverlaps(p)
    THEN <<UnknownReason>>
    ELSE (IF NoVehicleSkilled(p) THEN <<SkillReason(p)>> ELSE <<>>)
         \o (IF NoVehicleLargeEnough(p) THEN <<CapacityReason>> ELSE <<>>)
         \o (IF NoVehicleWindowOverlaps(p) THEN <<TimeReason>> ELSE <<>>)

\* C11 - Unassigned reasons are exact: every stop a construction leaves
\* unassigned has a non-empty reason list holding the skill reason exactly when
\* no vehicle has the skills, the capacity reason exactly when no vehicle is
\* large enough, the time reason exactly when no vehicle's window overlaps, in
\* that order, and the single reason unknown exactly when none applies
\* (instances in which the loop over the stops left over has run).
UnassignedReasonsExact ==
    (pc = "explore" /\ search.op \in ConstructOps /\ MatrixAny(distance_matrix)) =>
        \A u \in 1..Len(solution.unassigned) :
            /\ solution.unassigned[u].reasons # <<>>
            /\ solution.unassigned[u].reasons
                   = ExactReasons(PointById(solution.unassigned[u].point_id))

\* ------------------------------------------------ matrices without a path
\* The road networks the matrix builders are run on: "loaded" is the connected
\* road of RoadLength; in "split" no edge joins two different nodes, so
\* nx.shortest_path raises NetworkXNoPath for points snapped to different nodes.
NetworkKinds == {"loaded", "split"}

HasPath(g, p, q) == g = "loaded" \/ p.lng = q.lng

\* Haversine distance R * c of the first revision's fallback; the modelled
\* points lie on latitude 0, one grid step apart in longitude.
Haversine(p, q) == Abs(p.lng - q.lng) * GridMeters

\* One cell of the first revision's matrices (minutes at 40 km/h in both
\* branches), and one of the second revision's (float('inf') without a path).
PairFirst(g, p, q) ==
    IF HasPath(g, p, q)
    THEN [distance |-> Finite(RoadLength(p, q)),
          time |-> Finite((RoadLength(p, q) * 3600) \div (DefaultSpeedKph * 1000 * 60))]
    ELSE [distance |-> Finite(Haversine(p, q)),
          time |-> Finite((Haversine(p, q) * 3600) \div (DefaultSpeedKph * 1000 * 60))]

PairSecond(g, p, q, speed) ==
    IF HasPath(g, p, q)
    THEN [distance |-> Finite(RoadLength(p, q)),
          time |-> Finite((RoadLength(p, q) * 36) \div (speed * 10))]
    ELSE [distance |-> Infinity, time |-> Infinity]

InitMatrix ==
    /\ request_data \in SolveFamily
    /\ method = "vnd"
    /\ max_iterations = 0
    /\ map_available = TRUE
    /\ graph \in NetworkKinds
    /\ pc \in {"matrix_first", "matrix_second"}
    /\ vehicles = IF pc = "matrix_first"
                  THEN _create_vehicles(request_data.vehicles).vehicles
                  ELSE from_json(request_data).vehicles
    /\ points = IF pc = "matrix_first"
                THEN _create_points(request_data.points).points
                ELSE from_json(request_data).points
    /\ depot = IF pc = "matrix_first"
               THEN _create_points(request_data.points).depot
               ELSE NoDepot
    /\ distance_matrix = <<>>
    /\ time_matrix = <<>>
    /\ solution = None
    /\ best_solution = None
    /\ search = NoSearch
    /\ outcome = "running"
    /\ result = None
    /\ effects = NoEffects

MatrixFirst ==
    /\ pc = "matrix_first"
    /\ distance_matrix' = [i \in 0..Len(points) |-> [j \in 0..Len(points) |->
           IF i = j THEN Finite(0)
           ELSE PairFirst(graph, AllPoints(points, depot)[i],
                          AllPoints(points, depot)[j]).distance]]
    /\ time_matrix' = [i \in 0..Len(points) |-> [j \in 0..Len(points) |->
           IF i = j THEN Finite(0)
           ELSE PairFirst(graph, AllPoints(points, depot)[i],
                          AllPoints(points, depot)[j]).time]]
    /\ pc' = "matrix_first_done"
    /\ UNCHANGED <<request_data, method, max_iterations, map_available, graph,
                   vehicles, points, depot, solution, best_solution, search,
                   outcome, result, effects>>

MatrixSecond ==
    /\ pc = "matrix_second"
    /\ distance_matrix' = [i \in 1..Len(points) |-> [j \in 1..Len(points) |->
           IF i = j THEN Finite(0)
           ELSE PairSecond(graph, points[i], points[j], vehicles[1].speed).distance]]
    /\ time_matrix' = [i \in 1..Len(points) |-> [j \in 1..Len(points) |->
           IF i = j THEN Finite(0)
           ELSE PairSecond(graph, points[i], points[j], vehicles[1].speed).time]]
    /\ pc' = "matrix_second_done"
    /\ UNCHANGED <<request_data, method, max_iterations, map_available, graph,
                   vehicles, points, depot, solution, best_solution, search,
                   outcome, result, effects>>

NextMatrix ==
    \/ MatrixFirst
    \/ MatrixSecond

SpecMatrix == InitMatrix /\ [][NextMatrix]_vars

MatrixPoint(i) ==
    IF pc = "matrix_first_done" THEN AllPoints(points, depot)[i] ELSE points[i]

\* C12 - NoPath is recovered locally: once a matrix builder has returned, every
\* ordered pair of distinct points between which the network has no path holds
\* a finite distance and a finite duration, never +infinity.
NoPathRecovered ==
    pc \in {"matrix_first_done", "matrix_second_done"} =>
        \A i \in DOMAIN distance_matrix : \A j \in DOMAIN distance_matrix :
            (i # j /\ ~HasPath(graph, MatrixPoint(i), MatrixPoint(j))) =>
                /\ ~distance_matrix[i][j].inf
                /\ ~time_matrix[i][j].inf

\* The first revision alone keeps C12's property.
NoPathRecoveredFirst == pc = "matrix_first_done" => NoPathRecovered

\* ---------------------------------------------- road-network cache and loading
\* The cells of the loaded area that contain points, and the state of the
\* .graphml file of a cell (or of a named area) in the cache directory.
NumCells == 2
MaxSolves == 2
Cells == 1..NumCells
EntryStates == {"absent", "present", "unreadable"}

\* _load_map_for_points with force_download = True (the default of
\* solve_from_json): every *.graphml under Path("map_cache") is unlinked; the
\* relative path is the router's cache directory when cwd is the package.
ClearedCache(cache, cwd_cache) ==
    IF cwd_cache THEN [c \in Cells |-> "absent"] ELSE cache

\* _load_large_area_map (the second definition, which is the one bound to the
\* class): a cell is read from its cache file when that loads, else downloaded
\* once; a failed download is logged and the cell skipped.
CellsFromCache(cache) == {c \in Cells : cache[c] = "present"}
CellsDownloaded(cache, resp) == {c \in Cells \ CellsFromCache(cache) : resp[c]}
CellsFailed(cache, resp) == {c \in Cells \ CellsFromCache(cache) : ~resp[c]}
CacheAfterLoad(cache, resp) ==
    [c \in Cells |-> IF c \in CellsDownloaded(cache, resp) THEN "present" ELSE cache[c]]

_load_large_area_map(cache, resp) ==
    [ok |-> CellsFromCache(cache) \cup CellsDownloaded(cache, resp) # {},
     cache |-> CacheAfterLoad(cache, resp),
     failed |-> CellsFailed(cache, resp)]

_load_map_for_points(cache, cwd_cache, resp) ==
    _load_large_area_map(ClearedCache(cache, cwd_cache), resp)

\* RobustRouter.load_map of the first revision (use_cache on) and of the
\* second: the outcome for one cache entry state and one provider response.
load_map_first(entry, provider) ==
    IF entry = "present" THEN [ok |-> TRUE, graph |-> "loaded", entry |-> "present"]
    ELSE IF provider THEN [ok |-> TRUE, graph |-> "loaded", entry |-> "present"]
    ELSE [ok |-> FALSE, graph |-> "None", entry |-> entry]

load_map_second(entry, provider) ==
    IF entry = "present" THEN [ok |-> TRUE, graph |-> "loaded", entry |-> "present"]
    ELSE IF entry = "unreadable" THEN [ok |-> FALSE, graph |-> "None", entry |-> entry]
    ELSE IF provider THEN [ok |-> TRUE, graph |-> "loaded", entry |-> "present"]
    ELSE [ok |-> FALSE, graph |-> "None", entry |-> entry]

InitMap ==
    /\ request_data \in {r \in SolveFamily : Len(r.vehicles) = 1 /\ Len(r.points) = 2}
    /\ method = "vnd"
    /\ max_iterations = 0
    /\ map_available \in BOOLEAN
    /\ graph = "None"
    /\ vehicles = from_json(request_data).vehicles
    /\ points = from_json(request_data).points
    /\ depot = NoDepot
    /\ distance_matrix = <<>>
    /\ time_matrix = <<>>
    /\ solution = None
    /\ best_solution = None
    /\ search \in {[op |-> "load", attempt |-> 0, solves |-> 1, cwd_cache |-> b] :
                      b \in BOOLEAN}
    /\ outcome = "running"
    /\ result = None
    /\ effects \in {[cache |-> c, failed |-> {}] : c \in [Cells -> EntryStates]}
    /\ pc \in {"map_solve", "map_first", "map_second"}

\* One pass of the loading loop of solve_from_json: the load, then break, or
\* sleep(1) and the second attempt, or the ValueError of the last attempt.
MapLoadAttempt ==
    /\ pc = "map_solve"
    /\ \E resp \in [Cells -> BOOLEAN] :
         /\ effects' = [cache |-> _load_map_for_points(effects.cache, search.cwd_cache, resp).cache,
                        failed |-> _load_map_for_points(effects.cache, search.cwd_cache, resp).failed]
         /\ IF _load_map_for_points(effects.cache, search.cwd_cache, resp).ok
            THEN /\ graph' = "loaded"
                 /\ pc' = "map_loaded"
                 /\ UNCHANGED <<search, outcome>>
            ELSE IF search.attempt = 1
            THEN Raise("ValueError") /\ UNCHANGED <<graph, search>>
            ELSE /\ search' = [search EXCEPT !.attempt = 1]
                 /\ UNCHANGED <<graph, pc, outcome>>
    /\ UNCHANGED <<request_data, method, max_iterations, map_available, vehicles, points,
                   depot, distance_matrix, time_matrix, solution, best_solution, result>>

\* The next solve_from_json call on the same router: self.graph = None and
\* the loading loop starts over.
MapSolveAgain ==
    /\ pc \in {"map_loaded", "done"}
    /\ search.op = "load"
    /\ search.solves < MaxSolves
    /\ search' = [search EXCEPT !.attempt = 0, !.solves = @ + 1]
    /\ graph' = "None"
    /\ outcome' = "running"
    /\ pc' = "map_solve"
    /\ UNCHANGED <<request_data, method, max_iterations, map_available, vehicles, points,
                   depot, distance_matrix, time_matrix, solution, best_solution, result,
                   effects>>

\* load_map by area name; the area's cache file is the entry of cell 1. The
\* outcome for each of the three entry states is kept side by side in result.
LoadMapFirst ==
    /\ pc = "map_first"
    /\ result' = [e \in EntryStates |-> load_map_first(e, map_available)]
    /\ graph' = load_map_first(effects.cache[1], map_available).graph
    /\ effects' = [effects EXCEPT !.cache[1] = load_map_first(@, map_available).entry]
    /\ pc' = "map_first_done"
    /\ UNCHANGED <<request_data, method, max_iterations, map_available, vehicles, points,
                   depot, distance_matrix, time_matrix, solution, best_solution, search,
                   outcome>>

LoadMapSecond ==
    /\ pc = "map_second"
    /\ result' = [e \in EntryStates |-> load_map_second(e, map_available)]
    /\ graph' = load_map_second(effects.cache[1], map_available).graph
    /\ effects' = [effects EXCEPT !.cache[1] = load_map_second(@, map_available).entry]
    /\ pc' = "map_second_done"
    /\ UNCHANGED <<request_data, method, max_iterations, map_available, vehicles, points,
                   depot, distance_matrix, time_matrix, solution, best_solution, search,
                   outcome>>

NextMap ==
    \/ MapLoadAttempt
    \/ MapSolveAgain
    \/ LoadMapFirst
    \/ LoadMapSecond

SpecMap == InitMap /\ [][NextMap]_vars

\* C13 - The solve path never invalidates the road-network cache: no step of
\* a sequence of solve calls with default arguments makes a cache entry that
\* was present disappear.
CacheNeverInvalidated ==
    [][\A c \in Cells : effects.cache[c] = "present" => effects'.cache[c] = "present"]_vars

\* C14 - Cache transparency: with the map provider answering with the network,
\* load_map gives the same success flag and the same network whether the
\* area's cache entry is absent, present, or present but unreadable.
CacheTransparency ==
    (pc \in {"map_first_done", "map_second_done"} /\ map_available) =>
        \A e \in EntryStates :
            /\ result[e].ok = result["absent"].ok
            /\ result[e].graph = result["absent"].graph

\* The first revision alone keeps C14's property.
CacheTransparencyFirst == pc = "map_first_done" => CacheTransparency

\* C16 - Road-network loading is retried with bounded backoff: when the
\* loading loop of a solve has ended with the map loaded, no cell's download
\* failure was left without a retry.
FailedDownloadRetried ==
    (pc = "map_loaded" /\ search.op = "load") => effects.failed = {}

\* The loading loop itself is bounded: at most two loads per solve.
LoadAttemptsBounded ==
    (pc \in {"map_solve", "map_loaded"} /\ search.op = "load") => search.attempt \in {0, 1}

\* ------------------------------------------------- optimize endpoint, solvers
\* Requests posted to the optimize endpoint, each with its x-session-id; the
\* module-level solvers dict holds one RobustRouter per session.
NumRequests == 3
Requests == 1..NumRequests
Sessions == {"default", "other"}

\* run_optimization is a coroutine: the background task runner awaits it on the
\* event loop, and it awaits nothing before solve_from_json has returned, so a
\* request may take a step only while no other coroutine holds the loop.
MayStep_threads(running, r) == TRUE
MayStep(running, r) == running \in {0, r}

NoSolver == [made |-> FALSE, points |-> 0, vehicles |-> 0, graph |-> 0]

\* get_solver: the session's router, created on first use.
get_solver(solvers, s) ==
    IF solvers[s].made THEN solvers ELSE [solvers EXCEPT ![s].made = TRUE]

InitServe ==
    /\ request_data \in [Requests -> [session : Sessions]]
    /\ method = "vnd"
    /\ max_iterations = 0
    /\ map_available = TRUE
    /\ graph = "None"
    /\ vehicles = <<>>
    /\ points = <<>>
    /\ depot = NoDepot
    /\ distance_matrix = <<>>
    /\ time_matrix = <<>>
    /\ solution = None
    /\ best_solution = None
    /\ search = [op |-> "serve", running |-> 0, phase |-> [r \in Requests |-> "new"]]
    /\ outcome = "running"
    /\ result = [r \in Requests |-> [status |-> "none", points |-> 0, graph |-> 0]]
    /\ effects = [solvers |-> [s \in Sessions |-> NoSolver]]
    /\ pc = "serve"

ServeUnchanged ==
    UNCHANGED <<request_data, method, max_iterations, map_available, graph, vehicles,
                points, depot, distance_matrix, time_matrix, solution, best_solution,
                outcome, pc>>

\* start_optimization: get_solver, add_task, and the 'processing' entry of
\* optimization_cache.
StartOptimization(r) ==
    /\ pc = "serve"
    /\ search.phase[r] = "new"
    /\ MayStep(search.running, 0)
    /\ effects' = [effects EXCEPT !.solvers = get_solver(@, request_data[r].session)]
    /\ result' = [result EXCEPT ![r].status = "processing"]
    /\ search' = [search EXCEPT !.phase[r] = "queued"]
    /\ ServeUnchanged

\* solve_from_json up to add_vehicles: the router's points, vehicles and graph
\* are cleared and the request's own points and vehicles are stored.
ServeLoadData(r) ==
    /\ pc = "serve"
    /\ search.phase[r] = "queued"
    /\ MayStep(search.running, 0)
    /\ effects' = [effects EXCEPT !.solvers[request_data[r].session] =
                       [made |-> TRUE, points |-> r, vehicles |-> r, graph |-> 0]]
    /\ search' = [search EXCEPT !.phase[r] = "added", !.running = r]
    /\ UNCHANGED result
    /\ ServeUnchanged

\* The loading loop of solve_from_json: self.graph is set for the points given.
ServeLoadMap(r) ==
    /\ pc = "serve"
    /\ search.phase[r] = "added"
    /\ MayStep(search.running, r)
    /\ effects' = [effects EXCEPT !.solvers[request_data[r].session].graph = r]
    /\ search' = [search EXCEPT !.phase[r] = "mapped", !.running = r]
    /\ UNCHANGED result
    /\ ServeUnchanged

\* solve_vrp on what the router holds, the 'completed' entry, and the await
\* of asyncio.sleep that hands the loop back.
ServeSolve(r) ==
    /\ pc = "serve"
    /\ search.phase[r] = "mapped"
    /\ MayStep(search.running, r)
    /\ result' = [result EXCEPT ![r] =
                     [status |-> "completed",
                      points |-> effects.solvers[request_data[r].session].points,
                      graph |-> effects.solvers[request_data[r].session].graph]]
    /\ search' = [search EXCEPT !.phase[r] = "sleeping", !.running = 0]
    /\ UNCHANGED effects
    /\ ServeUnchanged

\* After the hour of sleep: optimization_cache.pop(request_id).
ServeExpire(r) ==
    /\ pc = "serve"
    /\ search.phase[r] = "sleeping"
    /\ MayStep(search.running, 0)
    /\ result' = [result EXCEPT ![r].status = "none"]
    /\ search' = [search EXCEPT !.phase[r] = "expired"]
    /\ UNCHANGED effects
    /\ ServeUnchanged

NextServe ==
    \/ \E r \in Requests : StartOptimization(r)
    \/ \E r \in Requests : ServeLoadData(r)
    \/ \E r \in Requests : ServeLoadMap(r)
    \/ \E r \in Requests : ServeSolve(r)
    \/ \E r \in Requests : ServeExpire(r)

SpecServe == InitServe /\ [][NextServe]_vars

\* C15 - Isolation between solves: while a request's solve is in progress the
\* session's router holds that request's own points, vehicles and (once
\* loaded) road network, and a completed solve was computed from its own.
SolveIsolation ==
    pc = "serve" =>
        \A r \in Requests :
            /\ search.phase[r] \in {"added", "mapped"} =>
                   /\ effects.solvers[request_data[r].session].points = r
                   /\ effects.solvers[request_data[r].session].vehicles = r
            /\ search.phase[r] = "mapped" =>
                   effects.solvers[request_data[r].session].graph = r
            /\ result[r].status = "completed" =>
                   (result[r].points = r /\ result[r].graph = r)

\* Two requests of one session: the first has completed, and the second is in
\* progress on the same router with its map loaded.
SecondSolveOnSharedRouter ==
    /\ pc = "serve"
    /\ \E r \in Requests : \E q \in Requests :
          /\ r # q
          /\ request_data[r].session = request_data[q].session
          /\ result[r].status = "completed"
          /\ search.phase[q] = "mapped"

\* ------------------------------------------------ comparing two solutions
\* Solutions of one instance that the searches hand to _is_better_solution:
\* the builder's, the GRASP constructions, and their neighbours.
Constructions == {_create_initial_solution} \cup _grasp_construct(DefaultAlphaTenths)

CandidateSolutions ==
    Constructions \cup UNION {Range(_generate_all_neighbors(s)) : s \in Constructions}

InitCompare ==
    /\ \E req \in WellFormedRequests : Prepared(req)
    /\ pc = "compare"
    /\ method = "none"
    /\ max_iterations = 0
    /\ solution = None
    /\ best_solution = None
    /\ search = NoSearch
    /\ outcome = "running"
    /\ result = None
    /\ effects = NoEffects

\* _is_better_solution(a, b) and _is_better_solution(b, a) on one pair.
Compare ==
    /\ pc = "compare"
    /\ \E a \in CandidateSolutions : \E b \in CandidateSolutions :
         /\ solution' = a
         /\ best_solution' = b
         /\ result' = [better |-> _is_better_solution(a, b),
                       reverse |-> _is_better_solution(b, a)]
    /\ pc' = "compared"
    /\ UNCHANGED <<instance_vars, search, outcome, effects>>

\* _evaluate_solution of one candidate.
Evaluate ==
    /\ pc = "compare"
    /\ \E a \in CandidateSolutions :
         /\ solution' = a
         /\ result' = [cost |-> _evaluate_solution(a)]
    /\ pc' = "evaluated"
    /\ UNCHANGED <<instance_vars, best_solution, search, outcome, effects>>

\* neighbor = solution: the generator's writes land in the caller's object
same_object(original, written) == written

\* copy.deepcopy(solution) of the generators and of _vnd_search: the writes go
\* to the copy, and the caller's object is as it was
deepcopy(original, written) == original

\* neighborhood_structures[k] for k = 0..3, and _vnd_search for k = 4
Produced(k, a) ==
    IF k < 4 THEN Range(Neighborhood(k, a)) ELSE {_vnd_search(a, MaxIter)}

\* One call of a generator, or one VND run, on a constructed solution:
\* solution is the caller's object after the call.
Generate ==
    /\ pc = "compare"
    /\ \E a \in Constructions : \E k \in 0..4 : \E n \in Produced(k, a) :
         /\ solution' = deepcopy(a, n)
         /\ result' = [given |-> a, produced |-> n, k |-> k]
    /\ pc' = "generated"
    /\ UNCHANGED <<instance_vars, best_solution, search, outcome, effects>>

\* _update_route_stats called on a route, and called again on the outcome.
Recompute ==
    /\ pc = "compare"
    /\ \E a \in CandidateSolutions : \E r \in 1..Len(a.routes) :
         /\ solution' = a
         /\ result' = [before |-> a.routes[r],
                       once |-> _update_route_stats(a.routes[r]),
                       twice |-> _update_route_stats(_update_route_stats(a.routes[r]))]
    /\ pc' = "recomputed"
    /\ UNCHANGED <<instance_vars, best_solution, search, outcome, effects>>

NextCompare ==
    \/ Compare
    \/ Evaluate
    \/ Generate
    \/ Recompute

SpecCompare == InitCompare /\ [][NextCompare]_vars

\* the three-level order as the specification words it
BetterReference(a, b) ==
    IF AllFeasible(a.routes) # AllFeasible(b.routes) THEN AllFeasible(a.routes)
    ELSE IF a.stats.total_points_served # b.stats.total_points_served
    THEN a.stats.total_points_served > b.stats.total_points_served
    ELSE a.stats.total_cost < b.stats.total_cost

SolutionCostPenalised ==
    pc = "evaluated" =>
        /\ ~result.cost.inf
        /\ result.cost.v
              = SumSeq([r \in 1..Len(solution.routes) |-> solution.routes[r].cost])
                + (IF solution.unassigned # <<>>
                   THEN UnservedPenalty * Len(solution.unassigned)
                   ELSE 0)

\* The same for solutions whose routes are all feasible and whose stats are
\* the sums over the routes: only the unassigned stops are left to matter.
SolutionCostPenalisedSound ==
    (/\ pc = "evaluated"
     /\ AllFeasible(solution.routes)
     /\ solution.stats.total_cost
           = SumSeq([r \in 1..Len(solution.routes) |-> solution.routes[r].cost]))
        => SolutionCostPenalised

EvaluatorIdempotent ==
    pc = "recomputed" =>
        /\ result.twice = result.once
        /\ result.once.points = result.before.points
        /\ result.once.vehicle_id = result.before.vehicle_id

\* A route of two stops with a positive distance was recomputed.
RecomputedTwoStops ==
    /\ pc = "recomputed"
    /\ Len(result.once.points) >= 2
    /\ result.once.distance > 0

\* the three-level order with the total cost taken as the sum of the routes'
\* costs instead of the stats that were copied along
RouteCostSum(sol) == SumSeq([r \in 1..Len(sol.routes) |-> sol.routes[r].cost])

ServedCount(sol) == SumSeq([r \in 1..Len(sol.routes) |-> Len(sol.routes[r].points)])

StrictlyBetterRecomputed(a, b) ==
    IF AllFeasible(a.routes) # AllFeasible(b.routes) THEN AllFeasible(a.routes)
    ELSE IF ServedCount(a) # ServedCount(b) THEN ServedCount(a) > ServedCount(b)
    ELSE RouteCostSum(a) < RouteCostSum(b)

\* C21 - VND returns a local optimum: when _vnd_search has left its loops
\* before the iteration cap, the solution it is about to return has no
\* strictly better neighbour under any of the four generators.
VndLocalOptimum ==
    (pc = "vnd" /\ search.at = "done" /\ search.iteration < max_iterations) =>
        \A k \in 0..3 : \A n \in Range(Neighborhood(k, best_solution)) :
            ~StrictlyBetterRecomputed(n, best_solution)

\* ------------------- first revision: _vnd_search on solutions handed to it
\* a route dict over the stops ids of vehicle v, its stats computed by
\* _update_route_stats
RouteOver(v, ids) ==
    _update_route_stats([vehicle_id |-> vehicles[v].id, points |-> ids,
                         distance |-> 0, duration |-> 0, cost |-> 0, load |-> 0,
                         volume |-> 0, feasible |-> TRUE])

\* the stops in input order cut after position j: the first part on the first
\* vehicle, the rest on the last vehicle; a part without stops has no route
SplitRoutes(j) ==
    LET ids == [i \in 1..Len(points) |-> points[i].id]
        first == SubSeq(ids, 1, j)
        rest == SubSeq(ids, j + 1, Len(ids))
    IN (IF first = <<>> THEN <<>> ELSE <<RouteOver(1, first)>>)
         \o (IF rest = <<>> THEN <<>> ELSE <<RouteOver(Len(vehicles), rest)>>)

\* the solutions _vnd_search is started on: what the builder returns, and
\* complete solutions that may overload a vehicle
HandedSolutions ==
    {_create_initial_solution} \cup {MakeSolution(SplitRoutes(j), <<>>) : j \in 0..Len(points)}

InitVnd ==
    /\ \E req \in WellFormedRequests : Prepared(req)
    /\ pc = "construct"
    /\ method = "vnd"
    /\ max_iterations \in 0..MaxIter
    /\ solution = None
    /\ best_solution = None
    /\ search = NoSearch
    /\ outcome = "running"
    /\ result = None
    /\ effects = NoEffects

\* the caller's initial_solution
VndHand ==
    /\ pc = "construct"
    /\ solution' \in HandedSolutions
    /\ pc' = "dispatch"
    /\ UNCHANGED <<instance_vars, best_solution, search, outcome, result, effects>>

NextVnd == VndHand \/ VndStart \/ VndAdvance \/ VndReturn

SpecVnd == InitVnd /\ [][NextVnd]_vars

\* the neighbours of generator k that the comparison ranks above sol
BetterNeighbors(k, sol) ==
    {n \in Range(Neighborhood(k, sol)) : _is_better_solution(n, sol)}

\* one pass of the inner loop body, from the locals before to the locals after
VndPassOrdered(k, current, better, k_after, current_after) ==
    IF better = {}
    THEN current_after = current /\ k_after = k + 1
    ELSE /\ current_after \in better
         /\ k_after = 0
         /\ \A m \in better : ~_is_better_solution(m, current_after)

TabuCaps == {0, 1, MaxIter, 2 * MaxIter}

InitTabu ==
    /\ \E req \in SolveFamily : Prepared(req)
    /\ pc = "construct"
    /\ method = "tabu"
    /\ max_iterations \in TabuCaps
    /\ solution = None
    /\ best_solution = None
    /\ search = NoSearch
    /\ outcome = "running"
    /\ result = None
    /\ effects = NoEffects

NextTabu == InitialSolution \/ TabuStart \/ TabuIteration \/ TabuReturn \/ Finish

SpecTabu == InitTabu /\ [][NextTabu]_vars

\* the for loop is about to run the body of an iteration past the early stop
TabuBodyRuns ==
    /\ pc = "tabu"
    /\ search.next < max_iterations
    /\ search.no_improvement < max_iterations \div 4

\* no neighbour has a value below the value of chosen
LeastValued(neighbors, chosen) ==
    \A n \in Range(neighbors) :
        ~ValueLess(_evaluate_solution(n), _evaluate_solution(chosen))

\* the outcome of one iteration that found neighbours: the search goes on from
\* one of them, of least value when the tabu list forbids nothing
MovesToBest(neighbors, tabu_list, pc_after, current_after) ==
    neighbors # <<>> =>
        /\ pc_after = "tabu"
        /\ current_after \in Range(neighbors)
        /\ tabu_list = <<>> => LeastValued(neighbors, current_after)

\* C23 - Tabu neighbour selection: an iteration whose neighbourhood is not
\* empty always moves to a neighbour (the lowest-cost admissible one, or the
\* best available one when none is admissible) and never stops the search.
TabuNeighbourSelection ==
    [][TabuBodyRuns =>
          MovesToBest(_generate_all_neighbors(solution), search.tabu_list,
                      pc', solution')]_vars

\* the tabu list at the end of iteration i that applied a move
ListMaintained(tabu_list_after, i) ==
    /\ tabu_list_after # <<>>
    /\ tabu_list_after[Len(tabu_list_after)].expiry = i + TabuTenure
    /\ \A e \in Range(tabu_list_after) : e.expiry > i
    /\ Len(tabu_list_after) <= MaxTabuSize

\* C24 - Tabu list maintenance: an iteration that starts with recorded moves
\* consults them and runs to its end; the move applied in iteration i is
\* recorded with expiry i + tenure, and at the end of the iteration no entry
\* has expired and the list holds at most max_tabu_size entries.
TabuListMaintenance ==
    [][TabuBodyRuns =>
          /\ outcome' = "running"
          /\ solution' # solution => ListMaintained(search'.tabu_list, search.next)]_vars

\* C25 - Tabu stopping rule: the for loop is left only when the run of
\* non-improving iterations has reached max_iterations \div 4 or the cap, and
\* the search then returns the global best.
TabuStoppingRule ==
    [][(pc \in {"tabu", "tabu_end"} /\ pc' \notin {"tabu", "tabu_end"}) =>
          /\ pc' = "finish"
          /\ result' = best_solution
          /\ \/ search.no_improvement >= max_iterations \div 4
             \/ search.next >= max_iterations]_vars

\* ------------------------------ first revision: the searches of solve_vrp
\* solve_vrp from the construction on, for each method and cap
InitSearch ==
    /\ \E req \in SolveFamily : Prepared(req)
    /\ pc = "construct"
    /\ method \in Methods
    /\ max_iterations \in {0, 1, MaxIter}
    /\ solution = None
    /\ best_solution = None
    /\ search = NoSearch
    /\ outcome = "running"
    /\ result = None
    /\ effects = NoEffects

NextSearch ==
    \/ InitialSolution
    \/ VndStart
    \/ VndAdvance
    \/ VndReturn
    \/ TabuStart
    \/ TabuIteration
    \/ TabuReturn
    \/ GraspStart
    \/ GraspIteration
    \/ GraspReturn
    \/ Finish

\* the positions of solve_vrp from the construction on
SearchPositions ==
    {"construct", "dispatch", "vnd", "tabu", "tabu_end", "grasp", "finish", "done"}

\* a step of the thread that runs solve_vrp, while the call has not ended:
\* every step moves the position or counts a construction or a search step
SolveStep ==
    /\ pc # "done"
    /\ pc' \in SearchPositions
    /\ effects' \in {effects, [effects EXCEPT !.search_steps = @ + 1],
                     [effects EXCEPT !.constructions = @ + 1],
                     [effects EXCEPT !.constructions = @ + 1, !.search_steps = @ + 1]}

\* solve_vrp runs on one thread from its first statement to its return or to
\* the exception that leaves it: while the call has not ended, the thread
\* takes its next step
SpecLive == InitSearch /\ [][NextSearch]_vars /\ WF_<<pc, effects>>(SolveStep)

\* C26 - Every search terminates: once solve_vrp hands the initial solution to
\* VND, Tabu or GRASP, the search reaches its return statement.
EverySearchReturns == (pc = "dispatch") ~> (pc = "finish")

\* the weaker statement: the call that runs a search comes to an end, by
\* return or by exception
EverySearchEnds == (pc = "dispatch") ~> (pc = "done")

\* ------------------------------ first revision: the two constructions alone
\* layouts of the stops on the line, two of them with two stops at one place
BuildLayouts == Layouts \cup {"pair", "far"}

BuildFamily ==
    {[vehicles |-> VehiclesPayload(m, va, vb),
      points |-> <<DepotData>> \o StopsPayload(n, a, b, layout)] :
        m \in 1..NumVehicles, va \in VehicleKinds, vb \in VehicleKinds,
        n \in 1..NumStops, a \in StopKinds, b \in StopKinds, layout \in BuildLayouts}

\* alpha of _grasp_construct in tenths: purely greedy, the default, purely random
AlphaTenths == {0, DefaultAlphaTenths, 10}

\* self.* of the second revision once solve_vrp has built the matrices
PreparedRouters(req) ==
    /\ request_data = req
    /\ vehicles = from_json(req).vehicles
    /\ points = from_json(req).points
    /\ depot = NoDepot
    /\ distance_matrix = _create_distance_time_matrices(from_json(req).points,
                                                        from_json(req).vehicles).distance
    /\ time_matrix = _create_distance_time_matrices(from_json(req).points,
                                                    from_json(req).vehicles).time
    /\ graph = "loaded"
    /\ map_available = TRUE

\* alpha of _grasp_construction in tenths
RoutersAlphaTenths == AlphaTenths \cup {7}

InitBuild ==
    /\ pc \in {"construct", "routers_construct"}
    /\ \E req \in BuildFamily :
          IF pc = "construct" THEN Prepared(req) ELSE PreparedRouters(req)
    /\ method = "none"
    /\ max_iterations = 0
    /\ solution = None
    /\ best_solution = None
    /\ search = NoSearch
    /\ outcome = "running"
    /\ result = None
    /\ effects = NoEffects

\* a call of _create_initial_solution
Build ==
    /\ pc = "construct"
    /\ solution' = _create_initial_solution
    /\ search' = [op |-> "build"]
    /\ pc' = "built"
    /\ UNCHANGED <<instance_vars, best_solution, outcome, result, effects>>

\* a call of _grasp_construct(alpha)
GraspConstruct ==
    /\ pc = "construct"
    /\ \E alpha_tenths \in AlphaTenths :
          /\ solution' \in _grasp_construct(alpha_tenths)
          /\ search' = [op |-> "grasp_construct", alpha_tenths |-> alpha_tenths]
    /\ pc' = "built"
    /\ UNCHANGED <<instance_vars, best_solution, outcome, result, effects>>

\* a call of _grasp_construction(alpha) of the second revision
RoutersGraspConstruct ==
    /\ pc = "routers_construct"
    /\ \E alpha_tenths \in RoutersAlphaTenths :
          /\ solution' \in {[routes |-> built] : built \in _grasp_construction(alpha_tenths)}
          /\ search' = [op |-> "grasp_construction", alpha_tenths |-> alpha_tenths]
    /\ pc' = "built"
    /\ UNCHANGED <<instance_vars, best_solution, outcome, result, effects>>

NextBuild == Build \/ GraspConstruct \/ RoutersGraspConstruct

SpecBuild == InitBuild /\ [][NextBuild]_vars

\* points_to_assign when the vehicle of route r starts: the stops that the
\* routes before r do not serve, in input order
PoolBefore(sol, r) ==
    LET served == UNION {Range(sol.routes[q].points) : q \in 1..(r - 1)}
        Left(p) == points[p].id \notin served
    IN SelectSeq([i \in 1..Len(points) |-> i], Left)

PositionIn(pool, p) == CHOOSE i \in 1..Len(pool) : pool[i] = p

\* the stop at position i of the pool is a candidate, no candidate is nearer
\* to the current point, and no candidate as near comes before it
NearestFirst(v, st, i) ==
    LET dist(j) == distance_matrix[st.current_point][st.pool[j]]
    IN /\ i \in Candidates(v, st)
       /\ \A j \in Candidates(v, st) :
             /\ dist(i) <= dist(j)
             /\ dist(j) = dist(i) => i <= j

\* the stops ids of one route, appended one after the other from st, each
\* obey the selection rule
RECURSIVE AppendsNearest(_, _, _)
AppendsNearestAt(v, st, ids, i) ==
    NearestFirst(v, st, i) /\ AppendsNearest(v, Advance(v, st, i), Tail(ids))

AppendsNearest(v, st, ids) ==
    ids = <<>> \/ AppendsNearestAt(v, st, ids, PositionIn(st.pool, PointById(Head(ids))))

RoutesAppendNearest(sol) ==
    \A r \in 1..Len(sol.routes) :
        AppendsNearest(VehicleById(sol.routes[r].vehicle_id),
                       StartRoute(VehicleById(sol.routes[r].vehicle_id), PoolBefore(sol, r)),
                       sol.routes[r].points)

\* C27 - Constructive selection rule: every stop the builder appended to a
\* route was a candidate at that moment, at the least travel distance from the
\* route's last stop among the candidates, and the first such stop in input
\* order.
ConstructiveSelectionRule ==
    (pc = "built" /\ search.op = "build") => RoutesAppendNearest(solution)

\* the builder chose between two candidates at the same distance: the first
\* two stops are at one place, both are candidates of the first route's
\* vehicle at the depot, and the route starts with the first of them
TieBrokenByOrder ==
    /\ pc = "built"
    /\ search.op = "build"
    /\ Len(points) >= 2
    /\ solution.routes # <<>>
    /\ distance_matrix[0][1] = distance_matrix[0][2]
    /\ {1, 2} \subseteq Candidates(VehicleById(solution.routes[1].vehicle_id),
                                   StartRoute(VehicleById(solution.routes[1].vehicle_id),
                                              [i \in 1..Len(points) |-> i]))
    /\ solution.routes[1].points[1] = points[1].id

\* the least and the greatest of a non-empty set of numbers
LeastOf(S) == CHOOSE x \in S : \A y \in S : x <= y
GreatestOf(S) == CHOOSE x \in S : \A y \in S : x >= y

\* d is within min + alpha * (max - min) of the distances ds, alpha in tenths
WithinThreshold(ds, d, alpha_tenths) ==
    10 * d <= 10 * LeastOf(ds) + alpha_tenths * (GreatestOf(ds) - LeastOf(ds))

\* first revision: the stop at position i of the pool is a candidate within
\* the threshold; the list the code draws from is not empty, holds a nearest
\* candidate, only nearest ones when alpha is 0 and every one when alpha is 1
RclRuleAt(v, st, i, alpha_tenths, cands, rcl) ==
    LET dist(j) == distance_matrix[st.current_point][st.pool[j]]
        ds == {dist(j) : j \in cands}
    IN /\ i \in cands
       /\ WithinThreshold(ds, dist(i), alpha_tenths)
       /\ \E j \in rcl : dist(j) = LeastOf(ds)
       /\ alpha_tenths = 0 => \A j \in rcl : dist(j) = LeastOf(ds)
       /\ alpha_tenths = 10 => rcl = cands

RECURSIVE InsertsFromRcl(_, _, _, _)
InsertsFromRclAt(v, st, ids, alpha_tenths, i) ==
    /\ RclRuleAt(v, st, i, alpha_tenths, Candidates(v, st),
                 RestrictedCandidates(v, st, alpha_tenths))
    /\ InsertsFromRcl(v, Advance(v, st, i), Tail(ids), alpha_tenths)

InsertsFromRcl(v, st, ids, alpha_tenths) ==
    ids = <<>> \/ InsertsFromRclAt(v, st, ids, alpha_tenths,
                                   PositionIn(st.pool, PointById(Head(ids))))

\* the first revision's construction keeps the rule of the restricted
\* candidate list
RestrictedCandidateListFirst ==
    (pc = "built" /\ search.op = "grasp_construct") =>
        \A r \in 1..Len(solution.routes) :
            InsertsFromRcl(VehicleById(solution.routes[r].vehicle_id),
                           StartRoute(VehicleById(solution.routes[r].vehicle_id),
                                      PoolBefore(solution, r)),
                           solution.routes[r].points, search.alpha_tenths)

\* second revision: unassigned_points when the route at position r is started
RoutersPoolBefore(routes, r) ==
    LET served == UNION {Range(routes[q].points) : q \in 1..(r - 1)}
        Left(p) == p \notin served
    IN SelectSeq([i \in 1..Len(points) |-> i], Left)

\* second revision: the point p is one that can be added to the route, and its
\* distance from the route's last point is within the threshold
RoutersRclRuleAt(route, cands, p, alpha_tenths) ==
    /\ p \in Range(cands)
    /\ WithinThreshold({_calculate_insertion_cost(route, q) : q \in Range(cands)},
                       _calculate_insertion_cost(route, p), alpha_tenths)

RECURSIVE RoutersInsertsFromRcl(_, _, _, _)
RoutersInsertsFromRcl(route, pool, ps, alpha_tenths) ==
    \/ ps = <<>>
    \/ /\ RoutersRclRuleAt(route, SelectSeq(pool, LAMBDA q : _can_add_point(route, q)),
                           Head(ps), alpha_tenths)
       /\ RoutersInsertsFromRcl(RoutersAddPoint(route, Head(ps), 0, 0),
                                SelectSeq(pool, LAMBDA q : q # Head(ps)),
                                Tail(ps), alpha_tenths)

\* C28 - GRASP restricted candidate list: every stop the GRASP construction
\* inserts is a candidate whose distance from the route's current last stop
\* is at most min_distance + alpha * (max_distance - min_distance) over the
\* current candidates (here for the construction of the second revision).
RestrictedCandidateList ==
    (pc = "built" /\ search.op = "grasp_construction") =>
        \A r \in 1..Len(solution.routes) :
            RoutersInsertsFromRcl(RoutersRoute(solution.routes[r].vehicle),
                                  RoutersPoolBefore(solution.routes, r),
                                  solution.routes[r].points, search.alpha_tenths)

\* the stops of the route of vehicle v in sol, none when v has no route
RouteOfVehicle(sol, v) ==
    IF \E r \in 1..Len(sol.routes) : VehicleById(sol.routes[r].vehicle_id) = v
    THEN sol.routes[CHOOSE r \in 1..Len(sol.routes) :
                        VehicleById(sol.routes[r].vehicle_id) = v].points
    ELSE <<>>

\* points_to_assign when the vehicle at position k of the sorted vehicles
\* starts: the stops the vehicles before it do not serve
PoolAt(sol, k) ==
    LET served == UNION {Range(RouteOfVehicle(sol, SortedVehicles[j])) : j \in 1..(k - 1)}
        Left(p) == points[p].id \notin served
    IN SelectSeq([i \in 1..Len(points) |-> i], Left)

\* the state of the while loop after the stops ids have been appended
RECURSIVE Follow(_, _, _)
Follow(v, st, ids) ==
    IF ids = <<>> THEN st
    ELSE Follow(v, Advance(v, st, PositionIn(st.pool, PointById(Head(ids)))), Tail(ids))

\* the state in which the route of the vehicle at position k was closed
ClosedAt(sol, k) ==
    Follow(SortedVehicles[k], StartRoute(SortedVehicles[k], PoolAt(sol, k)),
           RouteOfVehicle(sol, SortedVehicles[k]))

\* some stop is a candidate of some vehicle that starts at the depot
SomeStopCompatible ==
    \E v \in DOMAIN vehicles : \E p \in DOMAIN points :
        IsCandidate(v, StartRoute(v, [i \in 1..Len(points) |-> i]), p)

\* every unassigned stop was no candidate of any vehicle when that vehicle's
\* route was closed, and a compatible stop means a non-empty result
CompleteFor(sol) ==
    /\ \A u \in Range(sol.unassigned) : \A k \in 1..Len(SortedVehicles) :
          ~IsCandidate(SortedVehicles[k], ClosedAt(sol, k), PointById(u.point_id))
    /\ SomeStopCompatible => sol.stats.total_points_served >= 1

\* C29 - Builder completeness: when the builder has finished, a stop is
\* unassigned only if it was no candidate of any vehicle at the moment that
\* vehicle's route was closed; if some stop is compatible with some vehicle
\* from the depot, the result serves at least one stop, whatever the distances.
BuilderCompleteness ==
    (pc = "built" /\ search.op = "build") => CompleteFor(solution)

\* the same for the instances whose distance matrix has a non-zero entry
BuilderCompletenessNonZero ==
    (pc = "built" /\ search.op = "build" /\ MatrixAny(distance_matrix)) =>
        CompleteFor(solution)

\* ------------------------------------- optimize endpoint, optimization_cache
\* request_id = f"opt_{int(time.time())}_{request_hash[:8]}": the second of
\* the clock at which start_optimization runs and the hash of the payload
MaxClock == 1
Payloads == {"a", "b"}
RequestIds == (0..MaxClock) \X Payloads

\* a key that optimization_cache does not hold, and the 404 of the status query
Absent == "absent"

InitStatus ==
    /\ request_data \in [Requests -> [payload : Payloads, fails : BOOLEAN]]
    /\ method = "vnd"
    /\ max_iterations = 0
    /\ map_available = TRUE
    /\ graph = "None"
    /\ vehicles = <<>>
    /\ points = <<>>
    /\ depot = NoDepot
    /\ distance_matrix = <<>>
    /\ time_matrix = <<>>
    /\ solution = None
    /\ best_solution = None
    /\ search = [op |-> "status", now |-> 0,
                 phase |-> [r \in Requests |-> "new"],
                 request_id |-> [r \in Requests |-> <<0, "a">>]]
    /\ outcome = "running"
    /\ result = [id \in RequestIds |-> Absent]
    /\ effects = [terminal_seen |-> {}, back |-> {}]
    /\ pc = "status"

StatusUnchanged ==
    UNCHANGED <<request_data, method, max_iterations, map_available, graph, vehicles,
                points, depot, distance_matrix, time_matrix, solution, best_solution,
                outcome, pc>>

\* time.time() moves on
ClockTick ==
    /\ pc = "status"
    /\ search.now < MaxClock
    /\ search' = [search EXCEPT !.now = @ + 1]
    /\ UNCHANGED <<result, effects>>
    /\ StatusUnchanged

\* start_optimization: the request id, add_task, and the 'processing' entry
StatusStart(r) ==
    /\ pc = "status"
    /\ search.phase[r] = "new"
    /\ search' = [search EXCEPT
          !.phase[r] = "queued",
          !.request_id[r] = <<search.now, request_data[r].payload>>]
    /\ result' = [result EXCEPT ![<<search.now, request_data[r].payload>>] = "processing"]
    /\ UNCHANGED effects
    /\ StatusUnchanged

\* run_optimization up to its finally block: solve_from_json returns or
\* raises, and the 'completed' or the 'error' entry is stored
StatusRun(r) ==
    /\ pc = "status"
    /\ search.phase[r] = "queued"
    /\ result' = [result EXCEPT ![search.request_id[r]] =
                     IF request_data[r].fails THEN "error" ELSE "completed"]
    /\ search' = [search EXCEPT !.phase[r] = "sleeping"]
    /\ UNCHANGED effects
    /\ StatusUnchanged

\* the finally block after asyncio.sleep(3600): optimization_cache.pop; the
\* clock has left the second in which the request was started
StatusExpire(r) ==
    /\ pc = "status"
    /\ search.phase[r] = "sleeping"
    /\ search.now > search.request_id[r][1]
    /\ result' = [result EXCEPT ![search.request_id[r]] = Absent]
    /\ search' = [search EXCEPT !.phase[r] = "expired"]
    /\ UNCHANGED effects
    /\ StatusUnchanged

\* check_optimization_status: 404 without an entry, else the entry's status;
\* terminal_seen holds the ids reported completed or error so far, back the
\* ids reported processing after that
StatusQuery(id) ==
    /\ pc = "status"
    /\ effects' =
          [terminal_seen |-> IF result[id] \in {"completed", "error"}
                             THEN effects.terminal_seen \cup {id}
                             ELSE effects.terminal_seen,
           back |-> IF result[id] = "processing" /\ id \in effects.terminal_seen
                    THEN effects.back \cup {id} ELSE effects.back]
    /\ UNCHANGED <<search, result>>
    /\ StatusUnchanged

NextStatus ==
    \/ ClockTick
    \/ \E r \in Requests : StatusStart(r)
    \/ \E r \in Requests : StatusRun(r)
    \/ \E r \in Requests : StatusExpire(r)
    \/ \E id \in RequestIds : StatusQuery(id)

SpecStatus == InitStatus /\ [][NextStatus]_vars

\* the moves of one entry of optimization_cache that go forward
ForwardMoves ==
    {<<Absent, "processing">>, <<"processing", "completed">>, <<"processing", "error">>,
     <<"completed", Absent>>, <<"error", Absent>>}

\* C30 - Request status lifecycle: the status of every request id moves only
\* forward, from processing to completed or error and from there to absent;
\* it never goes back to processing and an entry is removed only after it
\* reached completed or error.
StatusLifecycle ==
    [][pc = "status" =>
          \A id \in RequestIds :
              result'[id] # result[id] => <<result[id], result'[id]>> \in ForwardMoves]_vars

\* no status query reports processing for an id that a query has reported
\* completed or error before
ReportsNeverGoBack == pc = "status" => effects.back = {}

\* the background task runner starts every task that was added
SpecStatusLive == SpecStatus /\ \A r \in Requests : WF_vars(StatusRun(r))

\* every accepted request reaches completed or error
AcceptedReachesTerminal ==
    \A r \in Requests :
        (pc = "status" /\ search.phase[r] = "queued")
            ~> (result[search.request_id[r]] \in {"completed", "error"})

====
